---------------------------- MODULE Spec2Model ----------------------------
(***************************************************************************)
(* Stargate Tactics: the battle-state store, the turn orchestrator, the    *)
(* combat resolver and the enemy AI, as a state machine.                   *)
(*                                                                         *)
(* One action per player command or pacing timer.  An action is the whole  *)
(* handler: every store mutation it performs, in order.  The states a      *)
(* store subscriber is notified with during the handler are recorded in    *)
(* `notified`; pending setTimeout callbacks are the queue `timers`.        *)
(***************************************************************************)
EXTENDS Integers, Sequences, FiniteSets, TLC

VARIABLES
  state,     \* Store._state: phase, currentRoom, characters, enemies, turn, ui
  timers,    \* pending setTimeout callbacks, in scheduling order
  notified,  \* observations of the states the last publishing handler notified
  turnLog,   \* card halves processed for the current turn-order entry (history)
  lastHit,   \* the character hits resolved by the last publishing handler (history)
  restarts,  \* how many times the game was restarted
  deckState, \* a modifier deck state: cards, remaining, needsReshuffle, and
             \* the modifier the last draw returned (history)
  subs       \* Store._listeners and Store._history, with the unsubscribe
             \* functions handed out and the listener calls of the last
             \* store operation (history)

vars == <<state, timers, notified, turnLog, lastHit, restarts, deckState, subs>>

-----------------------------------------------------------------------------
(* Bounds of the model *)

\* Pending pacing timers: a skip command is not issued beyond this many.
MaxTimers == 2

\* The restart command is not issued beyond this many times.
MaxRestarts == 1

\* Combat resolver on its own: the largest shield a character carries, and
\* the largest damage, heal or shield amount of one effect.
MaxShield == 1
MaxAmount == 2

-----------------------------------------------------------------------------
(* Program constants *)

TOTAL_ROOMS == 3
CARDS_TO_PLAY == 2
LONG_REST_HEAL == 2
ACTION_DELAY == 300
ENEMY_TURN_DELAY == 500

Max(a, b) == IF a >= b THEN a ELSE b
Min(a, b) == IF a <= b THEN a ELSE b
Abs(a) == IF a >= 0 THEN a ELSE -a
Range(s) == {s[i] : i \in 1..Len(s)}

-----------------------------------------------------------------------------
(* Hex geometry *)

\* HexMath.distance: cube Manhattan distance halved
HexDistance(a, b) ==
  (Abs(a[1] - b[1]) + Abs(a[2] - b[2]) + Abs((-a[1] - a[2]) - (-b[1] - b[2]))) \div 2

\* The direction table of HexMath.neighbors / HexMath.getDirection
Directions == << <<1, 0>>, <<1, -1>>, <<0, -1>>, <<-1, 0>>, <<-1, 1>>, <<0, 1>> >>

\* HexMath.neighbors, in table order
Neighbors(h) == [i \in 1..6 |-> <<h[1] + Directions[i][1], h[2] + Directions[i][2]>>]

\* HexMath.hexesInRange: the double loop over q and r
HexesInRange(center, range) ==
  { <<center[1] + q, center[2] + r>> :
      <<q, r>> \in { qr \in ((0 - range)..range) \X ((0 - range)..range) :
                      /\ qr[2] >= Max(0 - range, (0 - qr[1]) - range)
                      /\ qr[2] <= Min(range, (0 - qr[1]) + range) } }


-----------------------------------------------------------------------------
(* Content tables (GameData), scaled down: a two-character roster prefix,  *)
(* short decks, one enemy per room, rooms of 3 x 2 hexes, the last one of  *)
(* 4 x 2.                                                                  *)

\* GameData.characters: id and maxHealth of the roster prefix, health scaled
\* down (10 and 8 in the table)
Roster == << [id |-> "jack", maxHealth |-> 6],
             [id |-> "sam",  maxHealth |-> 5] >>

CharIds == {Roster[i].id : i \in 1..Len(Roster)}

\* GameData.enemies: archetype templates, health scaled down (6 and 10 in the
\* table)
EnemyTemplates ==
  [ jaffa_warrior       |-> [maxHealth |-> 4, move |-> 2, attack |-> 3, range |-> 1, ai |-> "melee"],
    jaffa_serpent_guard |-> [maxHealth |-> 4, move |-> 3, attack |-> 4, range |-> 2, ai |-> "ranged"] ]

\* GameData.rooms: dimensions, start positions, spawn list, walls, artifact
NoHex == <<-1, -1>>
Rooms ==
  << [width |-> 3, height |-> 2,
      startPositions |-> << <<0, 0>>, <<1, 0>> >>,
      enemies |-> << [type |-> "jaffa_warrior", position |-> <<2, 1>>] >>,
      walls |-> {}, artifactPosition |-> NoHex],
     [width |-> 3, height |-> 2,
      startPositions |-> << <<0, 0>>, <<1, 0>> >>,
      enemies |-> << [type |-> "jaffa_serpent_guard", position |-> <<2, 1>>] >>,
      walls |-> {}, artifactPosition |-> NoHex],
     [width |-> 4, height |-> 2,
      startPositions |-> << <<0, 0>>, <<1, 0>> >>,
      enemies |-> << [type |-> "jaffa_warrior", position |-> <<3, 1>>] >>,
      walls |-> {}, artifactPosition |-> <<2, 0>>] >>

\* A card half.  An optional key the card table leaves out is 0 / FALSE
\* (processAction reads it through `|| default`); `self` is
\* action.text.includes('self').
Act(t, v, rng) ==
  [type |-> t, value |-> v, range |-> rng, stun |-> FALSE, aoe |-> FALSE,
   aoeRadius |-> 0, push |-> 0, self |-> FALSE]
NullAct == Act("null", 0, 0)
NullCard == [id |-> "null", initiative |-> 0, top |-> NullAct, bottom |-> NullAct]

\* GameData.cards: the cards of the decks in play
Cards ==
  [ jack_02 |-> [id |-> "jack_02", initiative |-> 45,
                 top |-> Act("move", 4, 0), bottom |-> Act("buff", 1, 0)],
    jack_03 |-> [id |-> "jack_03", initiative |-> 25,
                 top |-> Act("attack", 4, 3), bottom |-> Act("move", 2, 0)],
    jack_07 |-> [id |-> "jack_07", initiative |-> 40,
                 top |-> Act("move", 5, 0), bottom |-> Act("attack", 2, 1)],
    jack_09 |-> [id |-> "jack_09", initiative |-> 20,
                 top |-> Act("move", 3, 0),
                 bottom |-> [Act("heal", 2, 0) EXCEPT !.self = TRUE]],
    jack_10 |-> [id |-> "jack_10", initiative |-> 50,
                 top |-> Act("attack", 3, 3), bottom |-> Act("move", 3, 0)],
    sam_01  |-> [id |-> "sam_01", initiative |-> 28,
                 top |-> [Act("attack", 2, 2) EXCEPT !.stun = TRUE],
                 bottom |-> Act("move", 3, 0)],
    sam_04  |-> [id |-> "sam_04", initiative |-> 12,
                 top |-> Act("shield", 2, 0), bottom |-> Act("move", 3, 0)],
    sam_06  |-> [id |-> "sam_06", initiative |-> 22,
                 top |-> Act("heal", 3, 2), bottom |-> Act("move", 3, 0)],
    sam_05  |-> [id |-> "sam_05", initiative |-> 38,
                 top |-> Act("attack", 3, 4), bottom |-> Act("move", 2, 0)],
    sam_07  |-> [id |-> "sam_07", initiative |-> 45,
                 top |-> Act("attack", 4, 3), bottom |-> Act("move", 2, 0)],
    sam_09  |-> [id |-> "sam_09", initiative |-> 10,
                 top |-> Act("move", 5, 0),
                 bottom |-> [Act("shield", 1, 0) EXCEPT !.self = TRUE]],
    daniel_03 |-> [id |-> "daniel_03", initiative |-> 14,
                   top |-> Act("push", 2, 0), bottom |-> Act("move", 3, 0)] ]

\* GameData.cards[deck], cut down: four cards for jack, one for sam, who
\* therefore never has two cards to play
Decks == [ jack |-> <<"jack_03", "jack_07", "jack_09", "jack_10">>,
           sam  |-> <<"sam_01">> ]

\* ModifierDeck.createStandardDeck, cut down to one card of each label but
\* +2 and -2 (twenty cards in the table: 6x +0, 5x +1, 5x -1, +2, -2, x2, MISS)
StandardDeck ==
  << [value |-> 0, type |-> "add", label |-> "+0"],
     [value |-> 1, type |-> "add", label |-> "+1"],
     [value |-> 0 - 1, type |-> "add", label |-> "-1"],
     [value |-> 2, type |-> "multiply", label |-> "x2"],
     [value |-> 0, type |-> "null", label |-> "MISS"] >>

\* No modifier drawn yet
NoModifier == [value |-> 0, type |-> "none", label |-> ""]

\* A deck state before its first draw: the full card set and an empty
\* remaining pile, which the first draw fills
NewDeckState ==
  [cards |-> StandardDeck, remaining |-> <<>>, needsReshuffle |-> FALSE,
   modifier |-> NoModifier]

\* new Store(initialState): no listener, no history
NewSubs ==
  [listeners |-> <<>>, history |-> <<>>, handles |-> {}, op |-> "new", calls |-> <<>>]

Room(st) == Rooms[st.currentRoom]
RoomHexes(room) == (0..(room.width - 1)) \X (0..(room.height - 1))


-----------------------------------------------------------------------------
(* Store state *)

EnemyIds == <<"enemy_0", "enemy_1", "enemy_2", "enemy_3", "enemy_4">>

\* A pending action in turn.currentAction; "none" is null.  Keys that
\* Store._deepMerge keeps from an earlier pending action of another type are
\* left out: no handler reads a key its own action type did not write.
NoAction ==
  [type |-> "none", actionIndex |-> 0 - 1, reachableHexes |-> {}, targets |-> {},
   damage |-> 0, amount |-> 0, pushDistance |-> 0, range |-> 0,
   stun |-> FALSE, aoe |-> FALSE, aoeRadius |-> 0, push |-> 0]

\* The state of createStore({ state: () => ... }) / restartGame
InitialState ==
  [phase |-> "briefing",
   currentRoom |-> 1,
   characters |-> <<>>,
   enemies |-> <<>>,
   turn |-> [phase |-> "selection",
             selectedCards |-> [c \in {} |-> [cardA |-> NullCard, cardB |-> NullCard]],
             turnOrder |-> <<>>,
             currentTurnIndex |-> 0,
             currentAction |-> NoAction],
   ui |-> [selectedCharacter |-> "none"]]

\* Index of the unit with the given id in a unit array, 0 when there is none
\* (Array.prototype.find by id)
IndexOf(units, id) ==
  IF \E i \in 1..Len(units) : units[i].id = id
  THEN CHOOSE i \in 1..Len(units) :
         /\ units[i].id = id
         /\ \A j \in 1..(i - 1) : units[j].id # id
  ELSE 0

\* What a subscriber sees of a notified state
Obs(st) ==
  [phase |-> st.phase,
   dead |-> \E i \in 1..Len(st.characters) : st.characters[i].health <= 0]

\* The running result of a handler: the store state, the observations
\* notified so far, the timers scheduled so far, the halves processed for the
\* current turn entry, the character hits resolved.
Ret(st, log) ==
  [st |-> st, obs |-> {}, tm |-> <<>>, log |-> log, hits |-> <<>>, events |-> <<>>]

\* Store.setState followed by Store._notify
SetState(r, st2) == [r EXCEPT !.st = st2, !.obs = @ \cup {Obs(st2)}]

\* setTimeout(callback, delay)
Timer(kind, delay) ==
  [kind |-> kind, delay |-> delay, enemyId |-> "none", targetId |-> "none", attack |-> 0]
SetTimeout(r, t) == [r EXCEPT !.tm = Append(@, t)]

-----------------------------------------------------------------------------
(* Store._deepMerge, on the shapes setState is called with *)

\* _deepMerge of one card half into another: a key of the source replaces the
\* target's, a key the source lacks keeps the target's value
MergeAct(t, s) ==
  [type      |-> s.type,
   self      |-> s.self,
   value     |-> IF s.value # 0 THEN s.value ELSE t.value,
   range     |-> IF s.range # 0 THEN s.range ELSE t.range,
   stun      |-> IF s.stun THEN TRUE ELSE t.stun,
   aoe       |-> IF s.aoe THEN TRUE ELSE t.aoe,
   aoeRadius |-> IF s.aoeRadius # 0 THEN s.aoeRadius ELSE t.aoeRadius,
   push      |-> IF s.push # 0 THEN s.push ELSE t.push]

\* _deepMerge on a cardA / cardB slot: null replaces; a card object is merged
\* into the card object already there (into {} when the slot held null)
MergeCard(t, s) ==
  IF s.id = "null" THEN NullCard
  ELSE [id |-> s.id, initiative |-> s.initiative,
        top |-> MergeAct(t.top, s.top), bottom |-> MergeAct(t.bottom, s.bottom)]

MergeSelection(t, s) ==
  [cardA |-> MergeCard(t.cardA, s.cardA), cardB |-> MergeCard(t.cardB, s.cardB)]

\* _deepMerge on turn.selectedCards: keys of the target that the source lacks
\* are kept
MergeSelectedCards(t, s) ==
  [c \in (DOMAIN t) \cup (DOMAIN s) |->
     IF c \in DOMAIN s
     THEN IF c \in DOMAIN t THEN MergeSelection(t[c], s[c])
          ELSE MergeSelection([cardA |-> NullCard, cardB |-> NullCard], s[c])
     ELSE t[c]]

\* setState({ turn: { ...state.turn, <updates> } }): every key of turn is
\* replaced by the source's value except selectedCards, an object, which is merged
SetTurn(r, newTurn) ==
  SetState(r, [r.st EXCEPT !.turn =
     [newTurn EXCEPT !.selectedCards =
        MergeSelectedCards(r.st.turn.selectedCards, newTurn.selectedCards)]])

-----------------------------------------------------------------------------
(* Walkability, reachability, targets *)

\* Combat.isInBounds
IsInBounds(hex, room) ==
  hex[1] >= 0 /\ hex[1] < room.width /\ hex[2] >= 0 /\ hex[2] < room.height

\* A walkability test that sees the bounds of the room only
IsWalkableInBounds(hex, st) == IsInBounds(hex, Room(st))

\* A walkability test that leaves out the loop over the enemies
IsWalkableAmongCharacters(hex, st) ==
  /\ IsInBounds(hex, Room(st))
  /\ hex \notin Room(st).walls
  /\ \A i \in 1..Len(st.characters) : st.characters[i].position # hex

\* Combat.isWalkable / EnemyAI.isWalkable: in bounds, no wall, no unit
IsWalkable(hex, st) ==
  /\ IsInBounds(hex, Room(st))
  /\ hex \notin Room(st).walls
  /\ \A i \in 1..Len(st.characters) : st.characters[i].position # hex
  /\ \A i \in 1..Len(st.enemies) : st.enemies[i].position # hex

RECURSIVE BfsLoop(_, _, _, _, _)
\* The while loop of Pathfinding.getReachableHexes; reachable hexes come out
\* in breadth-first order
BfsLoop(queue, visited, reachable, range, st) ==
  IF queue = <<>> THEN reachable
  ELSE LET cur == Head(queue)
           reach2 == IF cur.distance > 0 THEN Append(reachable, cur) ELSE reachable
           fresh == IF cur.distance < range
                    THEN SelectSeq(Neighbors(cur.hex),
                                   LAMBDA h : h \notin visited /\ IsWalkable(h, st))
                    ELSE <<>>
           pushed == [i \in 1..Len(fresh) |-> [hex |-> fresh[i], distance |-> cur.distance + 1]]
       IN BfsLoop(Tail(queue) \o pushed, visited \cup Range(fresh), reach2, range, st)

\* Pathfinding.getReachableHexes(start, range, hex => isWalkable(hex, state)):
\* the { hex, distance } records
ReachableWithDistance(start, range, st) ==
  BfsLoop(<<[hex |-> start, distance |-> 0]>>, {start}, <<>>, range, st)

\* Combat.getReachableHexes and the callers of Pathfinding.getReachableHexes
\* in EnemyAI, which read the hex of each record only
GetReachableHexes(start, range, st) ==
  LET reachable == ReachableWithDistance(start, range, st) IN
  [i \in 1..Len(reachable) |-> reachable[i].hex]

\* Map.set
Put(map, key, value) ==
  [k \in DOMAIN map \cup {key} |-> IF k = key THEN value ELSE map[k]]

\* An open-set pick that takes the key added last
PickLast(openSet, gScore, goal) == openSet[Len(openSet)]

\* The scan of findPath's open set for the lowest fScore: the first key, in
\* insertion order, with the least gScore + HexMath.distance(key, goal)
PickLowestF(openSet, gScore, goal) ==
  LET F(i) == gScore[openSet[i]] + HexDistance(openSet[i], goal) IN
  openSet[CHOOSE i \in 1..Len(openSet) :
            /\ \A j \in 1..Len(openSet) : F(j) >= F(i)
            /\ \A j \in 1..(i - 1) : F(j) > F(i)]

RECURSIVE RelaxNeighbors(_, _, _, _)
\* The loop of findPath over the neighbours of the current hex, from the
\* i-th on
RelaxNeighbors(acc, current, i, st) ==
  IF i > 6 THEN acc
  ELSE LET neighbor == Neighbors(current)[i]
           tentativeG == acc.gScore[current] + 1
       IN RelaxNeighbors(
            IF /\ IsWalkable(neighbor, st)
               /\ (neighbor \notin DOMAIN acc.gScore \/ tentativeG < acc.gScore[neighbor])
            THEN [openSet |-> IF neighbor \in Range(acc.openSet) THEN acc.openSet
                              ELSE Append(acc.openSet, neighbor),
                  cameFrom |-> Put(acc.cameFrom, neighbor, current),
                  gScore |-> Put(acc.gScore, neighbor, tentativeG)]
            ELSE acc,
            current, i + 1, st)

RECURSIVE ReconstructPath(_, _, _)
\* Pathfinding._reconstructPath
ReconstructPath(cameFrom, currentKey, path) ==
  IF currentKey \in DOMAIN cameFrom
  THEN ReconstructPath(cameFrom, cameFrom[currentKey], <<cameFrom[currentKey]>> \o path)
  ELSE path

RECURSIVE AStarLoop(_, _, _)
\* The while loop of Pathfinding.findPath
AStarLoop(acc, goal, st) ==
  IF acc.openSet = <<>> THEN <<>>
  ELSE LET current == PickLowestF(acc.openSet, acc.gScore, goal) IN
       IF current = goal THEN ReconstructPath(acc.cameFrom, current, <<current>>)
       ELSE AStarLoop(
              RelaxNeighbors([acc EXCEPT !.openSet = SelectSeq(@, LAMBDA h : h # current)],
                             current, 1, st),
              goal, st)

\* Pathfinding.findPath(start, goal, hex => isWalkable(hex, state))
FindPath(start, goal, st) ==
  IF start = goal THEN <<start>>
  ELSE IF ~IsWalkable(goal, st) THEN <<>>
  ELSE AStarLoop([openSet |-> <<start>>, cameFrom |-> <<>>,
                  gScore |-> Put(<<>>, start, 0)], goal, st)

\* Combat.getAttackTargets(unit, range, state, ENEMY): the enemies standing on
\* a hex within range of the unit, as ids.  getEnemyAt returns the first
\* enemy on a hex.
GetAttackTargets(pos, range, st) ==
  { st.enemies[i].id : i \in { j \in 1..Len(st.enemies) :
        /\ st.enemies[j].position \in HexesInRange(pos, range)
        /\ st.enemies[j].position # pos
        /\ \A k \in 1..(j - 1) : st.enemies[k].position # st.enemies[j].position } }

\* Combat.getHealTargets: living, wounded characters within range
GetHealTargets(pos, range, st) ==
  { st.characters[i].id : i \in { j \in 1..Len(st.characters) :
        /\ st.characters[j].health > 0
        /\ st.characters[j].health < st.characters[j].maxHealth
        /\ HexDistance(pos, st.characters[j].position) <= range } }

-----------------------------------------------------------------------------
(* Store actions *)

\* initializeCharacters: the roster at full health on room 1's start
\* positions, whole deck in hand.  `resting` is undefined (falsy) on a new
\* character.
InitializeCharacters(r) ==
  SetState(r, [r.st EXCEPT !.characters =
    [i \in 1..Len(Roster) |->
       [id |-> Roster[i].id, maxHealth |-> Roster[i].maxHealth,
        health |-> Roster[i].maxHealth,
        position |-> Rooms[1].startPositions[i],
        hand |-> Decks[Roster[i].id], discard |-> <<>>,
        shield |-> 0, resting |-> FALSE]]])

\* The spawn list of a room: template stats, spawn positions, ids per room
SpawnList(roomIndex) ==
  [i \in 1..Len(Rooms[roomIndex].enemies) |->
     LET def == Rooms[roomIndex].enemies[i]
         template == EnemyTemplates[def.type]
     IN [id |-> EnemyIds[i], type |-> def.type,
         health |-> template.maxHealth, maxHealth |-> template.maxHealth,
         position |-> def.position, move |-> template.move,
         attack |-> template.attack, range |-> template.range,
         ai |-> template.ai, stunned |-> FALSE]]

\* initializeEnemies(roomIndex) (roomIndex is 1-based here)
InitializeEnemies(r, roomIndex) ==
  SetState(r, [r.st EXCEPT !.enemies = SpawnList(roomIndex)])

SetPhase(r, phase) == SetState(r, [r.st EXCEPT !.phase = phase])

SetSelectedCharacter(r, id) == SetState(r, [r.st EXCEPT !.ui.selectedCharacter = id])

\* setHighlightedHexes: the highlights are not part of the model, the
\* notification is
SetHighlightedHexes(r) == SetState(r, r.st)

\* setCurrentAction(action)
SetCurrentAction(r, action) ==
  SetTurn(r, [r.st.turn EXCEPT !.currentAction = action])

\* The shield and health of a character after a hit of `amount`
\* damageCharacter without the shield: the whole amount goes to health
DamagedCharacterUnshielded(char, amount) ==
  [char EXCEPT !.health = Max(0, char.health - amount)]

\* damageCharacter, the arithmetic on the character object
DamagedCharacter(char, amount) ==
  LET shieldAbsorb == Min(char.shield, amount)
      remainingDamage == amount - shieldAbsorb
  IN [char EXCEPT !.shield = char.shield - shieldAbsorb,
                  !.health = Max(0, char.health - remainingDamage)]

\* damageCharacter: the hit is published, then, in a second setState, the
\* defeat
DamageCharacter(r, characterId, amount) ==
  LET i == IndexOf(r.st.characters, characterId) IN
  IF i = 0 THEN r
  ELSE LET char == DamagedCharacter(r.st.characters[i], amount)
           r1 == SetState(r, [r.st EXCEPT !.characters[i] = char])
           r2 == [r1 EXCEPT !.hits = Append(@,
                    [id |-> characterId, amount |-> amount,
                     shield |-> r.st.characters[i].shield,
                     health |-> r.st.characters[i].health,
                     shieldAfter |-> char.shield, healthAfter |-> char.health])]
       IN IF char.health <= 0 THEN SetPhase(r2, "defeat") ELSE r2

\* damageEnemy: health reduced in place, the enemy removed at 0 or below
DamageEnemy(r, enemyId, amount) ==
  LET i == IndexOf(r.st.enemies, enemyId) IN
  IF i = 0 THEN r
  ELSE LET health == r.st.enemies[i].health - amount IN
       IF health <= 0
       THEN SetState(r, [r.st EXCEPT !.enemies =
              SelectSeq(r.st.enemies, LAMBDA e : e.id # enemyId)])
       ELSE SetState(r, [r.st EXCEPT !.enemies[i].health = health])

\* stunEnemy / clearEnemyStun
SetStun(r, enemyId, flag) ==
  SetState(r, [r.st EXCEPT !.enemies =
    [i \in 1..Len(r.st.enemies) |->
       IF r.st.enemies[i].id = enemyId
       THEN [r.st.enemies[i] EXCEPT !.stunned = flag]
       ELSE r.st.enemies[i]]])
StunEnemy(r, enemyId) == SetStun(r, enemyId, TRUE)
ClearEnemyStun(r, enemyId) == SetStun(r, enemyId, FALSE)

\* A start position of a room; {} (no coordinates) beyond the list
StartPosition(roomIndex, i) ==
  IF i <= Len(Rooms[roomIndex].startPositions)
  THEN Rooms[roomIndex].startPositions[i] ELSE NoHex

\* advanceRoom without the move to the start positions
AdvanceRoomInPlace(r) ==
  LET nextRoom == r.st.currentRoom + 1 IN
  IF nextRoom > TOTAL_ROOMS THEN SetPhase(r, "victory")
  ELSE InitializeEnemies(
         SetState(r, [r.st EXCEPT !.currentRoom = nextRoom]),
         nextRoom)

\* advanceRoom
AdvanceRoom(r) ==
  LET nextRoom == r.st.currentRoom + 1 IN
  IF nextRoom > TOTAL_ROOMS THEN SetPhase(r, "victory")
  ELSE InitializeEnemies(
         SetState(r, [r.st EXCEPT
           !.currentRoom = nextRoom,
           !.characters = [i \in 1..Len(r.st.characters) |->
              [r.st.characters[i] EXCEPT !.position = StartPosition(nextRoom, i)]]]),
         nextRoom)

\* clearCardSelections: the {} given for selectedCards is merged into the
\* selections already there
ClearCardSelections(r) ==
  SetTurn(r, [r.st.turn EXCEPT
    !.selectedCards = [c \in {} |-> [cardA |-> NullCard, cardB |-> NullCard]],
    !.phase = "selection",
    !.currentAction = NoAction])

\* discardUsedCards moving the selected cards themselves to the discard,
\* whether or not the hand holds them
DiscardSelectedCards(r) ==
  SetState(r, [r.st EXCEPT !.characters =
    [i \in 1..Len(r.st.characters) |->
       LET char == r.st.characters[i] IN
       IF char.id \notin DOMAIN r.st.turn.selectedCards THEN char
       ELSE LET selection == r.st.turn.selectedCards[char.id]
                usedCardIds == {selection.cardA.id, selection.cardB.id} \ {"null"}
            IN [char EXCEPT
                  !.hand = SelectSeq(char.hand, LAMBDA c : c \notin usedCardIds),
                  !.discard = char.discard \o
                              SelectSeq(<<selection.cardA.id, selection.cardB.id>>,
                                        LAMBDA c : c \in usedCardIds)]]])

\* discardUsedCards
DiscardUsedCards(r) ==
  SetState(r, [r.st EXCEPT !.characters =
    [i \in 1..Len(r.st.characters) |->
       LET char == r.st.characters[i] IN
       IF char.id \notin DOMAIN r.st.turn.selectedCards THEN char
       ELSE LET selection == r.st.turn.selectedCards[char.id]
                usedCardIds == {selection.cardA.id, selection.cardB.id} \ {"null"}
            IN [char EXCEPT
                  !.hand = SelectSeq(char.hand, LAMBDA c : c \notin usedCardIds),
                  !.discard = char.discard \o
                              SelectSeq(char.hand, LAMBDA c : c \in usedCardIds)]]])

-----------------------------------------------------------------------------
(* Combat *)

\* Combat.executeMove(unit, targetHex, state, store): the arrays of the
\* state the caller captured are mapped and published
ExecuteMove(r, cst, unitId, targetHex) ==
  IF IndexOf(cst.characters, unitId) # 0
  THEN SetState(r, [r.st EXCEPT !.characters =
         [i \in 1..Len(cst.characters) |->
            IF cst.characters[i].id = unitId
            THEN [cst.characters[i] EXCEPT !.position = targetHex]
            ELSE cst.characters[i]]])
  ELSE SetState(r, [r.st EXCEPT !.enemies =
         [i \in 1..Len(cst.enemies) |->
            IF cst.enemies[i].id = unitId
            THEN [cst.enemies[i] EXCEPT !.position = targetHex]
            ELSE cst.enemies[i]]])

\* HexMath.getDirection: the first direction of the table with the greatest
\* dot product with to - from
GetDirection(from, to) ==
  LET Dot(i) == (to[1] - from[1]) * Directions[i][1] + (to[2] - from[2]) * Directions[i][2]
  IN Directions[CHOOSE i \in 1..6 : /\ \A j \in 1..6 : Dot(j) <= Dot(i)
                                    /\ \A j \in 1..(i - 1) : Dot(j) < Dot(i)]

\* HexMath.add
HexAdd(hex, direction) == <<hex[1] + direction[1], hex[2] + direction[2]>>

\* A push that only the bounds of the room stop
PushBlockedByBounds(nextPos, targetId, cst) == nextPos \notin RoomHexes(Room(cst))

\* The three tests of executePush's loop on the next hex: bounds, walls,
\* units other than the target
PushBlocked(nextPos, targetId, cst) ==
  \/ nextPos \notin RoomHexes(Room(cst))
  \/ nextPos \in Room(cst).walls
  \/ \E i \in 1..Len(cst.characters) :
       cst.characters[i].id # targetId /\ cst.characters[i].position = nextPos
  \/ \E i \in 1..Len(cst.enemies) :
       cst.enemies[i].id # targetId /\ cst.enemies[i].position = nextPos

RECURSIVE PushLoop(_, _, _, _, _)
\* The loop of executePush: the hex the target ends on
PushLoop(currentPos, direction, left, targetId, cst) ==
  IF left = 0 \/ PushBlocked(HexAdd(currentPos, direction), targetId, cst)
  THEN currentPos
  ELSE PushLoop(HexAdd(currentPos, direction), direction, left - 1, targetId, cst)

\* The position of the unit with the given id in the captured state
PositionOf(cst, unitId) ==
  IF IndexOf(cst.enemies, unitId) # 0
  THEN cst.enemies[IndexOf(cst.enemies, unitId)].position
  ELSE cst.characters[IndexOf(cst.characters, unitId)].position

\* The hex executePush leaves the target on
PushEnd(cst, pusherPos, targetId, distance) ==
  PushLoop(PositionOf(cst, targetId),
           GetDirection(pusherPos, PositionOf(cst, targetId)), distance, targetId, cst)

\* The value executePush returns: pushedDistance
PushedDistance(cst, pusherPos, targetId, distance) ==
  HexDistance(PositionOf(cst, targetId), PushEnd(cst, pusherPos, targetId, distance))

\* Combat.executePush(pusher, target, distance, state, store): nothing is
\* published when the target did not move
ExecutePush(r, cst, pusherPos, targetId, distance) ==
  IF PushedDistance(cst, pusherPos, targetId, distance) = 0 THEN r
  ELSE ExecuteMove(r, cst, targetId, PushEnd(cst, pusherPos, targetId, distance))

\* The `else if (stun)` branch of executeAttack
StunIf(r, stunned, targetId) == IF stunned THEN StunEnemy(r, targetId) ELSE r

\* EventBus.emit, the events a handler has emitted in order
Emit(r, event) == [r EXCEPT !.events = Append(@, event)]

\* Combat.executeAttack.  The target object is the one in the store, which
\* damageEnemy has already reduced when newHealth is computed from it; the
\* character found in the state passed in is the store's object too, reduced
\* by damageCharacter before the event's newHealth is computed from it.
ExecuteAttack(r, cst, targetId, damage, stun) ==
  IF IndexOf(cst.enemies, targetId) # 0
  THEN LET i == IndexOf(r.st.enemies, targetId)
           targetHealth == IF i = 0 THEN 0 ELSE r.st.enemies[i].health - damage
           newHealth == Max(0, targetHealth - damage)
           r1 == Emit(DamageEnemy(r, targetId, damage),
                      [type |-> "unit:damaged", id |-> targetId,
                       damage |-> damage, newHealth |-> newHealth])
       IN IF newHealth <= 0
          THEN Emit(r1, [type |-> "unit:defeated", id |-> targetId,
                         isCharacter |-> FALSE])
          ELSE IF stun
               THEN Emit(StunIf(r1, stun, targetId),
                         [type |-> "unit:stunned", id |-> targetId])
               ELSE r1
  ELSE LET r1 == DamageCharacter(r, targetId, damage)
           i == IndexOf(r1.st.characters, targetId)
           charHealth == IF i = 0 THEN 0 ELSE r1.st.characters[i].health
           newHealth == Max(0, charHealth - damage)
           r2 == Emit(r1, [type |-> "unit:damaged", id |-> targetId,
                           damage |-> damage, newHealth |-> newHealth])
       IN IF newHealth <= 0
          THEN Emit(r2, [type |-> "unit:defeated", id |-> targetId,
                         isCharacter |-> TRUE])
          ELSE r2

\* The additional targets without the radius test
AoeTargetsAnywhere(cst, primaryId, aoeRadius, maxAdditional) ==
  LET additionalTargets ==
        SelectSeq(cst.enemies, LAMBDA e : e.id # primaryId /\ e.health > 0)
  IN IF maxAdditional >= 0
     THEN SubSeq(additionalTargets, 1, Min(maxAdditional, Len(additionalTargets)))
     ELSE additionalTargets

\* The additional targets of an AOE attack: the other living enemies of the
\* captured state within aoeRadius of the primary target, at most
\* maxAdditional of them (-1: no limit)
AoeTargets(cst, primaryId, aoeRadius, maxAdditional) ==
  LET p == IndexOf(cst.enemies, primaryId)
      additionalTargets ==
        SelectSeq(cst.enemies, LAMBDA e :
          /\ e.id # primaryId
          /\ e.health > 0
          /\ p # 0
          /\ HexDistance(cst.enemies[p].position, e.position) <= aoeRadius)
  IN IF maxAdditional >= 0
     THEN SubSeq(additionalTargets, 1, Min(maxAdditional, Len(additionalTargets)))
     ELSE additionalTargets

RECURSIVE AoeLoop(_, _, _)
\* The loop of executeAoeAttack over the additional targets, each looked up
\* again in the store
AoeLoop(r, targetsToHit, damage) ==
  IF targetsToHit = <<>> THEN r
  ELSE LET id == Head(targetsToHit).id
           i == IndexOf(r.st.enemies, id)
       IN AoeLoop(IF i # 0 /\ r.st.enemies[i].health > 0
                  THEN ExecuteAttack(r, r.st, id, damage, FALSE)
                  ELSE r,
                  Tail(targetsToHit), damage)

\* Combat.executeAoeAttack
ExecuteAoeAttack(r, cst, primaryId, damage, aoeRadius, maxAdditional) ==
  AoeLoop(ExecuteAttack(r, cst, primaryId, damage, FALSE),
          AoeTargets(cst, primaryId, aoeRadius, maxAdditional), damage)

\* executeHeal without the clamp at maxHealth
ExecuteHealUnclamped(r, cst, targetId, amount) ==
  SetState(r, [r.st EXCEPT !.characters =
    [i \in 1..Len(cst.characters) |->
       IF cst.characters[i].id = targetId
       THEN [cst.characters[i] EXCEPT !.health = cst.characters[i].health + amount]
       ELSE cst.characters[i]]])

\* Combat.executeHeal
ExecuteHeal(r, cst, targetId, amount) ==
  SetState(r, [r.st EXCEPT !.characters =
    [i \in 1..Len(cst.characters) |->
       IF cst.characters[i].id = targetId
       THEN [cst.characters[i] EXCEPT
               !.health = Min(cst.characters[i].maxHealth, cst.characters[i].health + amount)]
       ELSE cst.characters[i]]])

RECURSIVE AoeHeal(_, _, _, _)
\* The AOE-heal loop of processAction: every heal maps the characters of
\* the state captured before the loop
AoeHeal(r, cst, i, amount) ==
  IF i > Len(cst.characters) THEN r
  ELSE AoeHeal(IF cst.characters[i].health > 0
                  /\ cst.characters[i].health < cst.characters[i].maxHealth
               THEN ExecuteHeal(r, cst, cst.characters[i].id, amount)
               ELSE r,
               cst, i + 1, amount)

\* Combat.executeShield
ExecuteShield(r, cst, targetId, amount) ==
  SetState(r, [r.st EXCEPT !.characters =
    [i \in 1..Len(cst.characters) |->
       IF cst.characters[i].id = targetId
       THEN [cst.characters[i] EXCEPT !.shield = cst.characters[i].shield + amount]
       ELSE cst.characters[i]]])

\* A round end that leaves the shields standing
KeepShields(r) == r

\* Combat.clearShields
ClearShields(r) ==
  SetState(r, [r.st EXCEPT !.characters =
    [i \in 1..Len(r.st.characters) |-> [r.st.characters[i] EXCEPT !.shield = 0]]])

\* A pending action as executeCharacterAction stores it
Pending(type, actionIndex) == [NoAction EXCEPT !.type = type, !.actionIndex = actionIndex]

\* Combat.processAction(action, unit, state, store): the store after the
\* automatic effect, if any, and the result; "complete" needs no target
ProcessAction(r, action, unit) ==
  LET st == r.st
      done == [r |-> r, result |-> Pending("complete", 0)]
  IN CASE action.type = "move" ->
            [r |-> r,
             result |-> [Pending("move", 0) EXCEPT
               !.reachableHexes = Range(GetReachableHexes(unit.position, action.value, st))]]
       [] action.type = "attack" ->
            LET range == IF action.range # 0 THEN action.range ELSE 1 IN
            [r |-> r,
             result |-> [Pending("attack", 0) EXCEPT
               !.targets = GetAttackTargets(unit.position, range, st),
               !.damage = action.value, !.range = range, !.stun = action.stun,
               !.aoe = action.aoe,
               !.aoeRadius = IF action.aoeRadius # 0 THEN action.aoeRadius ELSE 1,
               !.push = action.push]]
       [] action.type = "heal" ->
            IF action.aoe
            THEN [r |-> AoeHeal(r, st, 1, action.value),
                  result |-> Pending("complete", 0)]
            ELSE IF action.range = 0 \/ action.self
            THEN [r |-> ExecuteHeal(r, st, unit.id, action.value),
                  result |-> Pending("complete", 0)]
            ELSE [r |-> r,
                  result |-> [Pending("heal", 0) EXCEPT
                    !.targets = GetHealTargets(unit.position, action.range, st),
                    !.amount = action.value, !.range = action.range]]
       [] action.type = "shield" ->
            IF action.self
            THEN [r |-> ExecuteShield(r, st, unit.id, action.value),
                  result |-> Pending("complete", 0)]
            ELSE [r |-> r,
                  result |-> [Pending("shield", 0) EXCEPT
                    !.targets = { st.characters[i].id :
                                    i \in { j \in 1..Len(st.characters) :
                                              st.characters[j].health > 0 } },
                    !.amount = action.value]]
       [] action.type = "push" ->
            LET range == IF action.range # 0 THEN action.range ELSE 1 IN
            [r |-> r,
             result |-> [Pending("push", 0) EXCEPT
               !.targets = GetAttackTargets(unit.position, range, st),
               !.pushDistance = action.value, !.range = range]]
       [] OTHER -> done

-----------------------------------------------------------------------------
(* Enemy AI *)

\* The first index of 1..n at which F is least (a loop keeping the first
\* strictly better candidate)
FirstMinIndex(n, F(_)) ==
  CHOOSE i \in 1..n : /\ \A j \in 1..n : F(j) >= F(i)
                      /\ \A j \in 1..(i - 1) : F(j) > F(i)

\* EnemyAI.findNearestTarget: index of the nearest living character, the
\* first one on ties; 0 when none lives
FindNearestTarget(enemy, characters) ==
  LET alive == SelectSeq([i \in 1..Len(characters) |-> i],
                         LAMBDA i : characters[i].health > 0)
      D(k) == HexDistance(enemy.position, characters[alive[k]].position)
  IN IF alive = <<>> THEN 0 ELSE alive[FirstMinIndex(Len(alive), D)]

\* EnemyAI.findBestMoveToward: the first reachable hex closest to the target
FindBestMoveToward(enemy, targetPos, moveRange, st) ==
  LET reachable == GetReachableHexes(enemy.position, moveRange, st)
      D(k) == HexDistance(reachable[k], targetPos)
  IN IF reachable = <<>> THEN NoHex ELSE reachable[FirstMinIndex(Len(reachable), D)]

\* A ranged enemy that never finds a hex to retreat to
NoRetreatPosition(enemy, target, st) == NoHex

\* EnemyAI.findRetreatPosition: the first reachable hex of best score
FindRetreatPosition(enemy, target, st) ==
  LET reachable == GetReachableHexes(enemy.position, enemy.move, st)
      Score(k) ==
        LET distFromTarget == HexDistance(reachable[k], target.position) IN
        distFromTarget + (IF distFromTarget = enemy.range THEN 10
                          ELSE IF distFromTarget <= enemy.range /\ distFromTarget > 1 THEN 5
                          ELSE 0)
      NegScore(k) == 0 - Score(k)
  IN IF reachable = <<>> THEN NoHex ELSE reachable[FirstMinIndex(Len(reachable), NegScore)]

AiAction(type, targetId, position) == [type |-> type, targetId |-> targetId, position |-> position]
AiWait == AiAction("wait", "none", NoHex)

\* A decision that never attacks after a move
MoveOnly(enemy, target, moveTarget, otherwise) ==
  IF moveTarget = NoHex THEN otherwise ELSE AiAction("move", "none", moveTarget)

\* With a hex to move to: move there, and attack from there when the target
\* is then in range; with none (NoHex): `otherwise`
MoveOrMoveAndAttack(enemy, target, moveTarget, otherwise) ==
  IF moveTarget = NoHex THEN otherwise
  ELSE IF HexDistance(moveTarget, target.position) <= enemy.range
  THEN AiAction("moveAndAttack", target.id, moveTarget)
  ELSE AiAction("move", "none", moveTarget)

\* EnemyAI.decideMeleeAction
DecideMeleeAction(enemy, target, distance, st) ==
  IF distance <= enemy.range THEN AiAction("attack", target.id, NoHex)
  ELSE MoveOrMoveAndAttack(enemy, target,
         FindBestMoveToward(enemy, target.position, enemy.move, st), AiWait)

\* EnemyAI.decideRangedAction
DecideRangedAction(enemy, target, distance, st) ==
  IF distance <= enemy.range /\ distance > 1 THEN AiAction("attack", target.id, NoHex)
  ELSE IF distance = 1
  THEN MoveOrMoveAndAttack(enemy, target, FindRetreatPosition(enemy, target, st),
                           AiAction("attack", target.id, NoHex))
  ELSE IF distance > enemy.range
  THEN MoveOrMoveAndAttack(enemy, target,
         FindBestMoveToward(enemy, target.position, enemy.move, st), AiWait)
  ELSE AiWait

\* EnemyAI.decideAction: the branch on the nearest target t (0: none), then
\* the whole function
DecideAgainst(enemy, t, st) ==
  IF t = 0 THEN AiWait
  ELSE LET target == st.characters[t]
           distance == HexDistance(enemy.position, target.position)
       IN IF enemy.ai = "melee" THEN DecideMeleeAction(enemy, target, distance, st)
          ELSE IF enemy.ai = "ranged" THEN DecideRangedAction(enemy, target, distance, st)
          ELSE AiWait

\* decideAction without the stun test
DecideActionStunned(enemy, st) ==
  DecideAgainst(enemy, FindNearestTarget(enemy, st.characters), st)

DecideAction(enemy, st) ==
  IF enemy.stunned THEN AiWait
  ELSE DecideAgainst(enemy, FindNearestTarget(enemy, st.characters), st)

-----------------------------------------------------------------------------
(* Turn orchestration *)

\* allCardsSelected without the rest requirement: a character short of cards
\* is passed over whether or not it has a discard pile
AllCardsSelectedNoRestCheck(st) ==
  \A i \in 1..Len(st.characters) :
    LET char == st.characters[i] IN
    \/ char.resting
    \/ Len(char.hand) < CARDS_TO_PLAY
    \/ /\ char.id \in DOMAIN st.turn.selectedCards
       /\ st.turn.selectedCards[char.id].cardA.id # "null"
       /\ st.turn.selectedCards[char.id].cardB.id # "null"

\* getters.allCardsSelected
AllCardsSelected(st) ==
  \A i \in 1..Len(st.characters) :
    LET char == st.characters[i] IN
    \/ char.resting
    \/ /\ Len(char.hand) < CARDS_TO_PLAY
       /\ Len(char.discard) = 0
    \/ /\ Len(char.hand) >= CARDS_TO_PLAY
       /\ char.id \in DOMAIN st.turn.selectedCards
       /\ st.turn.selectedCards[char.id].cardA.id # "null"
       /\ st.turn.selectedCards[char.id].cardB.id # "null"

\* An insertion that puts an entry before the entries of equal initiative
InsertBeforeEqual(sorted, e) ==
  LET k == Cardinality({i \in 1..Len(sorted) : sorted[i].initiative < e.initiative})
  IN SubSeq(sorted, 1, k) \o <<e>> \o SubSeq(sorted, k + 1, Len(sorted))

\* order.sort((a, b) => a.initiative - b.initiative), a stable sort: an entry
\* goes after the entries whose initiative is not greater
InsertByInitiative(sorted, e) ==
  LET k == Cardinality({i \in 1..Len(sorted) : sorted[i].initiative <= e.initiative})
  IN SubSeq(sorted, 1, k) \o <<e>> \o SubSeq(sorted, k + 1, Len(sorted))

RECURSIVE SortByInitiative(_)
SortByInitiative(order) ==
  IF order = <<>> THEN <<>>
  ELSE InsertByInitiative(SortByInitiative(SubSeq(order, 1, Len(order) - 1)),
                          order[Len(order)])

\* The initiative buildTurnOrder gives an enemy
EnemyInitiative(enemy) == IF enemy.type = "jaffa_serpent_guard" THEN 40 ELSE 50

\* The entries buildTurnOrder pushes, before the sort.  `position` is that of
\* the unit object captured in the entry; selection.useTopOfA is never
\* written by selectCard, so the entry's useTopOfA is undefined (falsy).
TurnEntries(st) ==
  LET withCard == SelectSeq(st.characters, LAMBDA c :
                    /\ c.id \in DOMAIN st.turn.selectedCards
                    /\ st.turn.selectedCards[c.id].cardA.id # "null")
  IN [i \in 1..Len(withCard) |->
        [type |-> "character", unitId |-> withCard[i].id,
         position |-> withCard[i].position,
         initiative |-> st.turn.selectedCards[withCard[i].id].cardA.initiative,
         cardA |-> st.turn.selectedCards[withCard[i].id].cardA,
         cardB |-> st.turn.selectedCards[withCard[i].id].cardB,
         useTopOfA |-> FALSE]]
     \o
     [i \in 1..Len(st.enemies) |->
        [type |-> "enemy", unitId |-> st.enemies[i].id,
         position |-> st.enemies[i].position,
         initiative |-> EnemyInitiative(st.enemies[i]),
         cardA |-> NullCard, cardB |-> NullCard, useTopOfA |-> FALSE]]

\* buildTurnOrder
BuildTurnOrder(st) == SortByInitiative(TurnEntries(st))

\* confirmCardSelection
ConfirmCardSelection(r) ==
  IF ~AllCardsSelected(r.st) THEN r
  ELSE SetTimeout(
         [SetTurn(r, [r.st.turn EXCEPT
            !.phase = "execution",
            !.turnOrder = BuildTurnOrder(r.st),
            !.currentTurnIndex = 0,
            !.currentAction = NoAction]) EXCEPT !.log = <<>>],
         Timer("executeNextTurn", ENEMY_TURN_DELAY))

\* endRound, the clearing of the resting flags
ClearResting(r) ==
  SetState(r, [r.st EXCEPT !.characters =
    [i \in 1..Len(r.st.characters) |-> [r.st.characters[i] EXCEPT !.resting = FALSE]]])

\* endRound, the win / continue / lose decision after the clean-up
EndRoundCheck(r) ==
  LET st == r.st
  IN IF Len(st.enemies) = 0
     THEN IF st.currentRoom < TOTAL_ROOMS
          THEN ClearCardSelections(AdvanceRoom(r))
          ELSE IF \E i \in 1..Len(st.characters) :
                     /\ st.characters[i].health > 0
                     /\ st.characters[i].position = Rooms[TOTAL_ROOMS].artifactPosition
               THEN SetPhase(r, "victory")
               ELSE ClearCardSelections(r)
     ELSE IF \E i \in 1..Len(st.characters) :
                \/ Len(st.characters[i].hand) >= CARDS_TO_PLAY
                \/ Len(st.characters[i].discard) > 0
          THEN ClearCardSelections(r)
          ELSE SetPhase(r, "defeat")

\* endRound
EndRound(r) == EndRoundCheck(ClearResting(ClearShields(DiscardUsedCards(r))))

\* The auto-skip / auto-complete timer after action actionIndex
NextStepTimer(actionIndex) ==
  IF actionIndex = 0 THEN Timer("executeCharacterAction", ACTION_DELAY)
  ELSE Timer("advanceTurn", ACTION_DELAY)

\* An executeCharacterAction that leaves an empty choice pending
AutoSkipNever(r, empty, actionIndex) == r

\* The auto-skip timer of an action that has nothing to choose from
AutoSkip(r, empty, actionIndex) ==
  IF empty THEN SetTimeout(r, NextStepTimer(actionIndex)) ELSE r

\* executeEnemyTurn, the execution of the action the AI decided
EnemyAct(r, enemy, action) ==
  CASE action.type = "attack" ->
         SetTimeout(ExecuteAttack(r, r.st, action.targetId, enemy.attack, FALSE),
                    Timer("advanceTurn", ENEMY_TURN_DELAY))
    [] action.type = "move" ->
         SetTimeout(ExecuteMove(r, r.st, enemy.id, action.position),
                    Timer("advanceTurn", ENEMY_TURN_DELAY))
    [] action.type = "moveAndAttack" ->
         SetTimeout(ExecuteMove(r, r.st, enemy.id, action.position),
                    [Timer("enemyAttack", ACTION_DELAY) EXCEPT
                       !.enemyId = enemy.id, !.targetId = action.targetId,
                       !.attack = enemy.attack])
    [] OTHER ->
         SetTimeout(IF enemy.stunned THEN ClearEnemyStun(r, enemy.id) ELSE r,
                    Timer("advanceTurn", ACTION_DELAY))

\* executeEnemyTurn(turnEntry), up to its calls of advanceTurn, which the
\* caller makes: `advance` tells whether advanceTurn is called at once
EnemyTurnStep(r, turnEntry) ==
  LET st == r.st
      i == IndexOf(st.enemies, turnEntry.unitId)
  IN IF st.phase = "defeat" THEN [r |-> r, advance |-> FALSE]
     ELSE IF i = 0 THEN [r |-> r, advance |-> TRUE]
     ELSE [advance |-> FALSE,
           r |-> EnemyAct(r, st.enemies[i], DecideAction(st.enemies[i], st))]

\* executeCharacterAction, from the result of processAction on: the pending
\* action is shown, and an action with nothing to choose is auto-skipped
ShowAction(r, result) ==
  LET empty == IF result.type = "move" THEN result.reachableHexes = {}
               ELSE IF result.type = "shield" THEN FALSE
               ELSE result.targets = {}
  IN IF result.type = "complete"
     THEN SetTimeout(r, NextStepTimer(result.actionIndex))
     ELSE AutoSkip(SetCurrentAction(SetHighlightedHexes(r), result),
                   empty, result.actionIndex)

\* The card half of action actionIndex processed for the current turn
LogAction(p, actionIndex, cardId, half) ==
  ShowAction([p.r EXCEPT !.log = Append(@,
                [actionIndex |-> actionIndex, card |-> cardId,
                 slot |-> IF actionIndex = 0 THEN "A" ELSE "B",
                 half |-> half])],
             [p.result EXCEPT !.actionIndex = actionIndex])

\* executeCharacterAction(actionIndex), up to its call of advanceTurn.  A
\* missing turn entry, or a missing card on it, is a TypeError: the handler
\* stops with the store as it is.
CharacterActionStep(r, actionIndex) ==
  LET st == r.st
      idx == st.turn.currentTurnIndex
      stop == [r |-> r, advance |-> FALSE]
  IN IF idx >= Len(st.turn.turnOrder) THEN stop
     ELSE LET currentTurn == st.turn.turnOrder[idx + 1]
              card == IF actionIndex = 0 THEN currentTurn.cardA ELSE currentTurn.cardB
              half == IF actionIndex = 0
                      THEN (IF currentTurn.useTopOfA THEN "top" ELSE "bottom")
                      ELSE (IF currentTurn.useTopOfA THEN "bottom" ELSE "top")
              u == IndexOf(st.characters, currentTurn.unitId)
          IN IF card.id = "null" THEN stop
             ELSE IF u = 0 THEN [r |-> r, advance |-> TRUE]
             ELSE [advance |-> FALSE,
                   r |-> LogAction(
                           ProcessAction(r, IF half = "top" THEN card.top ELSE card.bottom,
                                         st.characters[u]),
                           actionIndex, card.id, half)]

RECURSIVE ExecuteNextTurn(_)
\* advanceTurn
AdvanceTurn(r) ==
  ExecuteNextTurn(
    SetHighlightedHexes(
      [SetTurn(r, [r.st.turn EXCEPT
         !.currentTurnIndex = r.st.turn.currentTurnIndex + 1,
         !.currentAction = NoAction]) EXCEPT !.log = <<>>]))

\* The call of advanceTurn, if any, that ends a step s
AfterStep(s) == IF s.advance THEN AdvanceTurn(s.r) ELSE s.r

\* The kinds of turn executeNextTurn tells apart
TurnKind(st) ==
  LET idx == st.turn.currentTurnIndex IN
  IF st.phase = "defeat" THEN "defeat"
  ELSE IF Len(st.enemies) = 0 \/ idx >= Len(st.turn.turnOrder) THEN "endRound"
  ELSE LET currentTurn == st.turn.turnOrder[idx + 1] IN
       IF currentTurn.type = "character"
       THEN LET u == IndexOf(st.characters, currentTurn.unitId) IN
            IF u = 0 \/ st.characters[u].health <= 0 THEN "skip" ELSE "character"
       ELSE IF IndexOf(st.enemies, currentTurn.unitId) = 0 THEN "skip" ELSE "enemy"

\* The step of the current turn: a skipped turn is an empty step that advances
TurnStep(r, kind) ==
  IF kind = "character" THEN CharacterActionStep(r, 0)
  ELSE IF kind = "enemy"
  THEN EnemyTurnStep(r, r.st.turn.turnOrder[r.st.turn.currentTurnIndex + 1])
  ELSE [r |-> r, advance |-> TRUE]

\* executeNextTurn
ExecuteNextTurn(r) ==
  IF TurnKind(r.st) = "defeat" THEN r
  ELSE IF TurnKind(r.st) = "endRound" THEN EndRound(r)
  ELSE AfterStep(TurnStep(r, TurnKind(r.st)))

\* executeCharacterAction(actionIndex)
ExecuteCharacterAction(r, actionIndex) ==
  AfterStep(CharacterActionStep(r, actionIndex))

\* completeCurrentAction
CompleteCurrentAction(r) ==
  SetTimeout(SetCurrentAction(r, NoAction),
             NextStepTimer(r.st.turn.currentAction.actionIndex))

-----------------------------------------------------------------------------
(* Player command handlers *)

\* selectCard(characterId, card)
SelectCard(r, characterId, card) ==
  LET sel == r.st.turn.selectedCards
      currentSelection == IF characterId \in DOMAIN sel THEN sel[characterId]
                          ELSE [cardA |-> NullCard, cardB |-> NullCard]
      newSelection ==
        IF currentSelection.cardA.id = card.id
        THEN [cardA |-> currentSelection.cardB, cardB |-> NullCard]
        ELSE IF currentSelection.cardB.id = card.id
        THEN [currentSelection EXCEPT !.cardB = NullCard]
        ELSE IF currentSelection.cardA.id = "null"
        THEN [currentSelection EXCEPT !.cardA = card]
        ELSE IF currentSelection.cardB.id = "null"
        THEN [currentSelection EXCEPT !.cardB = card]
        ELSE [cardA |-> currentSelection.cardB, cardB |-> card]
  IN SetTurn(r, [r.st.turn EXCEPT !.selectedCards =
       [c \in (DOMAIN sel) \cup {characterId} |->
          IF c = characterId THEN newSelection ELSE sel[c]]])

\* checkArtifactPickup without the test for remaining enemies
CheckArtifactPickupWithEnemies(r, hex) ==
  IF r.st.currentRoom # TOTAL_ROOMS
  THEN [r |-> r, won |-> FALSE]
  ELSE IF Rooms[TOTAL_ROOMS].artifactPosition # NoHex
          /\ hex = Rooms[TOTAL_ROOMS].artifactPosition
       THEN [r |-> SetPhase(r, "victory"), won |-> TRUE]
       ELSE [r |-> r, won |-> FALSE]

\* checkArtifactPickup(hex): the store after it, and whether victory was set
CheckArtifactPickup(r, hex) ==
  IF r.st.currentRoom # TOTAL_ROOMS \/ Len(r.st.enemies) > 0
  THEN [r |-> r, won |-> FALSE]
  ELSE IF Rooms[TOTAL_ROOMS].artifactPosition # NoHex
          /\ hex = Rooms[TOTAL_ROOMS].artifactPosition
       THEN [r |-> SetPhase(r, "victory"), won |-> TRUE]
       ELSE [r |-> r, won |-> FALSE]

\* onHexClick, after checkArtifactPickup: a victory ends the handler
AfterPickup(picked) == IF picked.won THEN picked.r ELSE CompleteCurrentAction(picked.r)

\* onHexClick without the look-up of the hex in the reachable list
OnHexClickAnywhere(r, hex) ==
  LET st == r.st
      currentAction == st.turn.currentAction
  IN IF currentAction.type # "move" THEN r
     ELSE IF st.turn.currentTurnIndex >= Len(st.turn.turnOrder) THEN r
     ELSE AfterPickup(CheckArtifactPickup(
            SetHighlightedHexes(
              ExecuteMove(r, st, st.turn.turnOrder[st.turn.currentTurnIndex + 1].unitId, hex)),
            hex))

\* onHexClick(hex).  A missing turn entry is a TypeError before any change.
OnHexClick(r, hex) ==
  LET st == r.st
      currentAction == st.turn.currentAction
  IN IF currentAction.type # "move" THEN r
     ELSE IF hex \notin currentAction.reachableHexes THEN r
     ELSE IF st.turn.currentTurnIndex >= Len(st.turn.turnOrder) THEN r
     ELSE AfterPickup(CheckArtifactPickup(
            SetHighlightedHexes(
              ExecuteMove(r, st, st.turn.turnOrder[st.turn.currentTurnIndex + 1].unitId, hex)),
            hex))

\* onUnitClick, after the attack: the push of an attack that carries one, on
\* the target as the store now holds it, if it lives
PushAfterAttack(r, pusherPos, unitId, push) ==
  IF push <= 0 THEN r
  ELSE LET e == IndexOf(r.st.enemies, unitId) IN
       IF e = 0 THEN r
       ELSE IF r.st.enemies[e].health <= 0 THEN r
       ELSE ExecutePush(r, r.st, pusherPos, unitId, push)

\* onUnitClick(unit, type)
OnUnitClick(r, unitId, type) ==
  LET st == r.st
      currentAction == st.turn.currentAction
      noEntry == st.turn.currentTurnIndex >= Len(st.turn.turnOrder)
  IN IF currentAction.type = "attack" /\ type = "enemy"
     THEN IF unitId \notin currentAction.targets \/ noEntry THEN r
          ELSE CompleteCurrentAction(SetHighlightedHexes(
                 PushAfterAttack(
                   IF currentAction.aoe
                   THEN ExecuteAoeAttack(r, st, unitId, currentAction.damage,
                          currentAction.aoeRadius,
                          IF currentAction.aoeRadius = 1 THEN 2 ELSE -1)
                   ELSE ExecuteAttack(r, st, unitId, currentAction.damage,
                                      currentAction.stun),
                   st.turn.turnOrder[st.turn.currentTurnIndex + 1].position,
                   unitId, currentAction.push)))
     ELSE IF currentAction.type = "push" /\ type = "enemy"
     THEN IF unitId \notin currentAction.targets \/ noEntry THEN r
          ELSE CompleteCurrentAction(SetHighlightedHexes(
                 ExecutePush(r, st,
                             st.turn.turnOrder[st.turn.currentTurnIndex + 1].position,
                             unitId, currentAction.pushDistance)))
     ELSE IF currentAction.type = "heal" /\ type = "character"
     THEN IF unitId \notin currentAction.targets \/ noEntry THEN r
          ELSE CompleteCurrentAction(SetHighlightedHexes(
                 ExecuteHeal(r, st, unitId, currentAction.amount)))
     ELSE IF currentAction.type = "shield" /\ type = "character"
     THEN IF noEntry THEN r
          ELSE CompleteCurrentAction(SetHighlightedHexes(
                 ExecuteShield(r, st, unitId, currentAction.amount)))
     ELSE r

\* performShortRest.  The characters the store creates carry no `burned`
\* list, so spreading it is a TypeError raised before the setState.
PerformShortRest(r) ==
  LET i == IndexOf(r.st.characters, r.st.ui.selectedCharacter) IN
  IF i = 0 THEN r
  ELSE IF Len(r.st.characters[i].hand) >= CARDS_TO_PLAY THEN r
  ELSE IF Len(r.st.characters[i].discard) = 0 THEN r
  ELSE r

\* performLongRest.  The same TypeError, raised where the burned cards are
\* copied, before the heal and before the setState.
PerformLongRest(r) ==
  LET i == IndexOf(r.st.characters, r.st.ui.selectedCharacter) IN
  IF i = 0 THEN r
  ELSE IF Len(r.st.characters[i].hand) >= CARDS_TO_PLAY THEN r
  ELSE r

\* skipCurrentAction
SkipCurrentAction(r) ==
  IF r.st.turn.currentAction.type = "none" THEN r
  ELSE CompleteCurrentAction(SetHighlightedHexes(r))

\* startMission
StartMissionHandler(r) ==
  SetSelectedCharacter(
    SetPhase(InitializeEnemies(InitializeCharacters(r), 1), "playing"),
    Roster[1].id)

\* restartGame: store.reset(initial state) notifies once
RestartGameHandler(r) == [SetState(r, InitialState) EXCEPT !.log = <<>>]

\* The callback of the moveAndAttack timer: the attack after the move, then
\* the timer of advanceTurn.  With the target gone from the store the
\* callback ends in a TypeError and schedules nothing.
EnemyAttackCallback(r, t) ==
  IF IndexOf(r.st.enemies, t.enemyId) # 0
  THEN IF IndexOf(r.st.characters, t.targetId) = 0 THEN r
       ELSE SetTimeout(ExecuteAttack(r, r.st, t.targetId, t.attack, FALSE),
                       Timer("advanceTurn", ENEMY_TURN_DELAY))
  ELSE SetTimeout(r, Timer("advanceTurn", ENEMY_TURN_DELAY))

-----------------------------------------------------------------------------
(* The state machine *)

Init ==
  /\ state = InitialState
  /\ timers = <<>>
  /\ notified = {}
  /\ turnLog = <<>>
  /\ lastHit = <<>>
  /\ restarts = 0
  /\ deckState = NewDeckState
  /\ subs = NewSubs

\* The handler ran to its end (or to its exception): its store, its timers
\* after the pending ones.  `notified` and `lastHit` are those of the last
\* handler that published a state.
Finish(r, pending) ==
  /\ state' = r.st
  /\ timers' = pending \o r.tm
  /\ notified' = IF r.obs = {} THEN notified ELSE r.obs
  /\ turnLog' = r.log
  /\ lastHit' = IF r.obs = {} THEN lastHit ELSE r.hits
  /\ UNCHANGED <<deckState, subs>>

\* A handler other than restartGame
Handle(r, pending) == Finish(r, pending) /\ UNCHANGED restarts

Begin == Ret(state, turnLog)
Playing == state.phase = "playing"
Selecting == Playing /\ state.turn.phase = "selection"

StartMission ==
  /\ state.phase = "briefing"
  /\ Handle(StartMissionHandler(Begin), timers)

RestartGame ==
  /\ state.phase \in {"victory", "defeat"}
  /\ restarts < MaxRestarts
  /\ Finish(RestartGameHandler(Begin), timers)
  /\ restarts' = restarts + 1

TabClick ==
  /\ Selecting
  /\ \E i \in 1..Len(state.characters) :
       Handle(SetSelectedCharacter(Begin, state.characters[i].id), timers)

\* A card of the selected character's rendered hand that has a click handler
CardClick ==
  /\ Selecting
  /\ LET u == IndexOf(state.characters, state.ui.selectedCharacter) IN
     /\ u # 0
     /\ LET char == state.characters[u]
            sel == IF char.id \in DOMAIN state.turn.selectedCards
                   THEN state.turn.selectedCards[char.id]
                   ELSE [cardA |-> NullCard, cardB |-> NullCard]
        IN /\ ~(Len(char.hand) < CARDS_TO_PLAY /\ Len(char.discard) > 0)
           /\ \E k \in 1..Len(char.hand) :
                /\ \/ Len(char.hand) > CARDS_TO_PLAY
                   \/ char.hand[k] \in {sel.cardA.id, sel.cardB.id}
                /\ Handle(SelectCard(Begin, char.id, Cards[char.hand[k]]), timers)

Confirm ==
  /\ Selecting
  /\ Handle(ConfirmCardSelection(Begin), timers)

\* performShortRest / performLongRest: with fewer than two cards in hand the
\* handler reads the character's `burned` list, which no character has, and
\* ends in a TypeError before setState; otherwise it returns at its guard
ShortRest ==
  /\ Selecting
  /\ Handle(PerformShortRest(Begin), timers)

LongRest ==
  /\ Selecting
  /\ Handle(PerformLongRest(Begin), timers)

HexClick ==
  /\ Playing
  /\ \E hex \in RoomHexes(Room(state)) : Handle(OnHexClick(Begin, hex), timers)

UnitClick ==
  /\ Playing
  /\ \/ \E i \in 1..Len(state.characters) :
          Handle(OnUnitClick(Begin, state.characters[i].id, "character"), timers)
     \/ \E i \in 1..Len(state.enemies) :
          Handle(OnUnitClick(Begin, state.enemies[i].id, "enemy"), timers)

Skip ==
  /\ Playing
  /\ state.turn.phase = "execution"
  /\ state.turn.currentAction.type # "none"
  /\ Len(timers) < MaxTimers
  /\ Handle(SkipCurrentAction(Begin), timers)

\* A pending timer may run before an earlier one only if its delay is shorter
CanFire(i) == \A j \in 1..(i - 1) : timers[j].delay > timers[i].delay
Without(i) == SubSeq(timers, 1, i - 1) \o SubSeq(timers, i + 1, Len(timers))

FireExecuteNextTurn ==
  \E i \in 1..Len(timers) :
    /\ CanFire(i) /\ timers[i].kind = "executeNextTurn"
    /\ Handle(ExecuteNextTurn(Begin), Without(i))

FireExecuteCharacterAction ==
  \E i \in 1..Len(timers) :
    /\ CanFire(i) /\ timers[i].kind = "executeCharacterAction"
    /\ Handle(ExecuteCharacterAction(Begin, 1), Without(i))

FireAdvanceTurn ==
  \E i \in 1..Len(timers) :
    /\ CanFire(i) /\ timers[i].kind = "advanceTurn"
    /\ Handle(AdvanceTurn(Begin), Without(i))

FireEnemyAttack ==
  \E i \in 1..Len(timers) :
    /\ CanFire(i) /\ timers[i].kind = "enemyAttack"
    /\ Handle(EnemyAttackCallback(Begin, timers[i]), Without(i))

Next ==
  \/ StartMission
  \/ RestartGame
  \/ TabClick
  \/ CardClick
  \/ Confirm
  \/ ShortRest
  \/ LongRest
  \/ HexClick
  \/ UnitClick
  \/ Skip
  \/ FireExecuteNextTurn
  \/ FireExecuteCharacterAction
  \/ FireAdvanceTurn
  \/ FireEnemyAttack

Spec == Init /\ [][Next]_vars


-----------------------------------------------------------------------------
(* The combat resolver on its own: attacks, AOE attacks, heals, shields,   *)
(* rests and round ends in any order, on a mission in progress whose units *)
(* have any health and shield.                                             *)

\* A room-1 encounter of two enemies, a warrior and a serpent guard
CombatEnemies(h1, h2) ==
  << [SpawnList(1)[1] EXCEPT !.health = h1],
     [SpawnList(2)[1] EXCEPT !.id = EnemyIds[2], !.position = <<2, 0>>, !.health = h2] >>

\* The mission in progress, with the given healths and shields, the tab of
\* the second character open
CombatState(healths, shields, h1, h2) ==
  LET st == StartMissionHandler(Ret(InitialState, <<>>)).st IN
  [st EXCEPT !.characters = [i \in 1..Len(st.characters) |->
                               [st.characters[i] EXCEPT !.health = healths[i],
                                                        !.shield = shields[i]]],
             !.enemies = CombatEnemies(h1, h2),
             !.ui.selectedCharacter = Roster[2].id]

InitCombat ==
  /\ \E hj \in 1..Roster[1].maxHealth, hs \in {1, Roster[2].maxHealth},
        sj \in 0..MaxShield, h1 \in {1, 4}, h2 \in {1, 4} :
       state = CombatState(<<hj, hs>>, <<sj, 0>>, h1, h2)
  /\ timers = <<>>
  /\ notified = {}
  /\ turnLog = <<>>
  /\ lastHit = <<>>
  /\ restarts = 0
  /\ deckState = NewDeckState
  /\ subs = NewSubs

\* An enemy's attack on a character
CombatAttackCharacter ==
  /\ Playing
  /\ \E i \in 1..Len(state.characters), d \in 0..MaxAmount :
       Handle(ExecuteAttack(Begin, state, state.characters[i].id, d, FALSE), timers)

\* A character's attack on an enemy
CombatAttackEnemy ==
  /\ Playing
  /\ \E i \in 1..Len(state.enemies), d \in 1..MaxAmount, stun \in BOOLEAN :
       Handle(ExecuteAttack(Begin, state, state.enemies[i].id, d, stun), timers)

\* A character's AOE attack, as onUnitClick calls it
CombatAoeAttack ==
  /\ Playing
  /\ \E i \in 1..Len(state.enemies), d \in 1..MaxAmount, aoeRadius \in 1..2 :
       Handle(ExecuteAoeAttack(Begin, state, state.enemies[i].id, d, aoeRadius,
                               IF aoeRadius = 1 THEN 2 ELSE -1), timers)

CombatHeal ==
  /\ Playing
  /\ \E i \in 1..Len(state.characters), amount \in 1..MaxAmount :
       Handle(ExecuteHeal(Begin, state, state.characters[i].id, amount), timers)

CombatAoeHeal ==
  /\ Playing
  /\ \E amount \in 1..MaxAmount : Handle(AoeHeal(Begin, state, 1, amount), timers)

CombatShield ==
  /\ Playing
  /\ \E i \in 1..Len(state.characters), amount \in 1..MaxAmount :
       /\ state.characters[i].shield + amount <= MaxShield
       /\ Handle(ExecuteShield(Begin, state, state.characters[i].id, amount), timers)

CombatEndRound ==
  /\ Playing
  /\ Handle(EndRound(Begin), timers)

NextCombat ==
  \/ CombatAttackCharacter
  \/ CombatAttackEnemy
  \/ CombatAoeAttack
  \/ CombatHeal
  \/ CombatAoeHeal
  \/ CombatShield
  \/ CombatEndRound
  \/ ShortRest
  \/ LongRest

SpecCombat == InitCombat /\ [][NextCombat]_vars

-----------------------------------------------------------------------------
(* Damage and health *)

\* C1: every attack on a character with damage d, shield s and health h
\* leaves the shield at max(0, s - d) and the health at
\* max(0, h - max(0, d - s)), and the character in the store carries these
\* values.
C1_ShieldAbsorbsFirst ==
  \A k \in 1..Len(lastHit) :
    LET hit == lastHit[k]
        i == IndexOf(state.characters, hit.id)
    IN /\ hit.shieldAfter = Max(0, hit.shield - hit.amount)
       /\ hit.healthAfter = Max(0, hit.health - Max(0, hit.amount - hit.shield))
       /\ i # 0
       /\ state.characters[i].shield = hit.shieldAfter
       /\ state.characters[i].health = hit.healthAfter

\* A hit larger than the shield on a shielded character that survives it
C1_Witness ==
  \E k \in 1..Len(lastHit) :
    /\ lastHit[k].shield > 0
    /\ lastHit[k].amount > lastHit[k].shield
    /\ lastHit[k].healthAfter > 0
    /\ lastHit[k].healthAfter < lastHit[k].health

\* C2: every character has 0 <= health <= maxHealth and shield >= 0, and
\* every enemy of the active enemy set has health > 0.
C2_HealthBounds ==
  /\ \A i \in 1..Len(state.characters) :
       /\ 0 <= state.characters[i].health
       /\ state.characters[i].health <= state.characters[i].maxHealth
       /\ state.characters[i].shield >= 0
  /\ \A i \in 1..Len(state.enemies) : state.enemies[i].health > 0

\* One enemy of the encounter was removed, one character was brought to 0
\* and another is at full health
C2_Witness ==
  /\ state.currentRoom = 1
  /\ Len(state.enemies) = 1
  /\ \E i \in 1..Len(state.characters) : state.characters[i].health = 0
  /\ \E i \in 1..Len(state.characters) :
       state.characters[i].health = state.characters[i].maxHealth

\* C3: in every state a subscriber is notified with, a character at health 0
\* comes with the phase Defeat.
C3_DefeatWithLethalHit ==
  \A o \in notified : o.dead => o.phase = "defeat"

-----------------------------------------------------------------------------
(* Terminal phases *)

\* Every unit's id, health and position
UnitsOf(st) ==
  [characters |-> [i \in 1..Len(st.characters) |->
                     <<st.characters[i].id, st.characters[i].health,
                       st.characters[i].position>>],
   enemies |-> [i \in 1..Len(st.enemies) |->
                  <<st.enemies[i].id, st.enemies[i].health, st.enemies[i].position>>]]

\* C4: once the phase is Defeat, no step other than the restart changes the
\* phase, or any unit's health or position.
C4_DefeatTerminal ==
  [][(state.phase = "defeat" /\ restarts' = restarts)
       => (state'.phase = "defeat" /\ UnitsOf(state') = UnitsOf(state))]_vars

\* A living character of st stands on the artifact hex of the final room
OnArtifact(st) ==
  \E i \in 1..Len(st.characters) :
    /\ st.characters[i].health > 0
    /\ st.characters[i].position = Rooms[TOTAL_ROOMS].artifactPosition

\* C5: the phase changes to Victory only in a step that ends in the final
\* room, with no enemy in the active set and a living character on the
\* artifact hex.
C5_VictoryOnlyWithArtifact ==
  [][(state.phase # "victory" /\ state'.phase = "victory")
       => /\ state'.currentRoom = TOTAL_ROOMS
          /\ state'.enemies = <<>>
          /\ OnArtifact(state')]_vars

\* The mission was won
C5_Witness ==
  /\ state.phase = "victory"
  /\ state.currentRoom = TOTAL_ROOMS
  /\ OnArtifact(state)

-----------------------------------------------------------------------------
(* Rooms *)

\* A pacing timer runs executeNextTurn
RunsExecuteNextTurn == FireExecuteNextTurn \/ FireAdvanceTurn

ClearedWithoutArtifact(st) ==
  /\ st.phase = "playing"
  /\ st.currentRoom = TOTAL_ROOMS
  /\ st.enemies = <<>>
  /\ ~OnArtifact(st)

\* C7: after a round ended in the cleared final room with no character on
\* the artifact hex, the phase is still Playing and a later round still
\* gives a character its actions: the round the player confirms there
\* starts the turn of its first living character.
C7_ClearedRoomStillPlayable ==
  [][(/\ ClearedWithoutArtifact(state)
      /\ state.turn.phase = "execution"
      /\ state.turn.currentTurnIndex = 0
      /\ Len(timers) = 1
      /\ state.turn.turnOrder # <<>>
      /\ state.turn.turnOrder[1].type = "character"
      /\ FireExecuteNextTurn)
       => /\ state'.phase = "playing"
          /\ state'.turn.phase = "execution"
          /\ turnLog' # <<>>]_vars

-----------------------------------------------------------------------------
(* Card selection and turn order *)

\* Every character that is neither resting nor exhausted has both cards
\* selected, and no character that is not resting is short of cards with a
\* discard pile to recover
ReadyToConfirm(st) ==
  \A i \in 1..Len(st.characters) :
    LET char == st.characters[i]
        exhausted == Len(char.hand) < CARDS_TO_PLAY /\ char.discard = <<>>
        needsRest == Len(char.hand) < CARDS_TO_PLAY /\ char.discard # <<>>
    IN \/ char.resting
       \/ exhausted
       \/ /\ ~needsRest
          /\ char.id \in DOMAIN st.turn.selectedCards
          /\ st.turn.selectedCards[char.id].cardA.id # "null"
          /\ st.turn.selectedCards[char.id].cardB.id # "null"

\* C8: the turn phase leaves Selection, and a turn order is built, only
\* when every character that is neither resting nor exhausted has both
\* cards selected and no non-resting character needs a rest.
C8_ConfirmGate ==
  [][(/\ state.phase = "playing"
      /\ state.turn.phase = "selection"
      /\ restarts' = restarts
      /\ \/ state'.turn.phase # "selection"
         \/ state'.turn.turnOrder # state.turn.turnOrder)
       => ReadyToConfirm(state)]_vars

\* The confirm button does nothing here: a character is out of cards with a
\* discard pile, although every selection is complete
C8_Witness ==
  /\ state.phase = "playing"
  /\ state.turn.phase = "selection"
  /\ state.enemies # <<>>
  /\ \E i \in 1..Len(state.characters) :
        /\ Len(state.characters[i].hand) < CARDS_TO_PLAY
        /\ state.characters[i].discard # <<>>
        /\ state.characters[i].id \in DOMAIN state.turn.selectedCards
        /\ state.turn.selectedCards[state.characters[i].id].cardA.id # "null"
        /\ state.turn.selectedCards[state.characters[i].id].cardB.id # "null"

-----------------------------------------------------------------------------
(* Card selection on its own: a mission in progress in which both          *)
(* characters hold several cards, some of equal initiative, against any    *)
(* pair of enemy archetypes.                                               *)

\* The hands dealt: jack_02 and sam_07 share initiative 45, jack_07 has the
\* serpent guard's 40 and jack_10 the 50 of every other enemy
OrderHands == [ jack |-> <<"jack_02", "jack_07", "jack_10">>,
                sam  |-> <<"sam_01", "sam_05", "sam_07">> ]

\* An archetype's enemy as initializeEnemies spawns it
Spawned(type, i, position) ==
  LET template == EnemyTemplates[type]
  IN [id |-> EnemyIds[i], type |-> type,
      health |-> template.maxHealth, maxHealth |-> template.maxHealth,
      position |-> position, move |-> template.move,
      attack |-> template.attack, range |-> template.range,
      ai |-> template.ai, stunned |-> FALSE]

\* The mission in progress with the hands above and two enemies
OrderState(t1, t2) ==
  LET st == StartMissionHandler(Ret(InitialState, <<>>)).st IN
  [st EXCEPT !.characters = [i \in 1..Len(st.characters) |->
                               [st.characters[i] EXCEPT
                                  !.hand = OrderHands[st.characters[i].id]]],
             !.enemies = << Spawned(t1, 1, <<2, 1>>), Spawned(t2, 2, <<2, 0>>) >>]

InitOrder ==
  /\ \E t1 \in DOMAIN EnemyTemplates, t2 \in DOMAIN EnemyTemplates :
       state = OrderState(t1, t2)
  /\ timers = <<>>
  /\ notified = {}
  /\ turnLog = <<>>
  /\ lastHit = <<>>
  /\ restarts = 0
  /\ deckState = NewDeckState
  /\ subs = NewSubs

NextOrder ==
  \/ TabClick
  \/ CardClick
  \/ Confirm

SpecOrder == InitOrder /\ [][NextOrder]_vars

\* The place of a unit in insertion order: characters in roster order, then
\* enemies in enemy-list order
InsertionRank(st, entry) ==
  IF entry.type = "character" THEN IndexOf(st.characters, entry.unitId)
  ELSE Len(st.characters) + IndexOf(st.enemies, entry.unitId)

\* The initiative the claim gives a unit
ClaimedInitiative(st, entry) ==
  IF entry.type = "character" THEN st.turn.selectedCards[entry.unitId].cardA.initiative
  ELSE IF st.enemies[IndexOf(st.enemies, entry.unitId)].type = "jaffa_serpent_guard"
       THEN 40 ELSE 50

\* C9: the turn order built at confirmation has one entry for every
\* character with a leading card and every enemy, is sorted ascending by
\* initiative (a character's is that of its cardA, a serpent guard's 40,
\* any other enemy's 50), and entries of equal initiative are in insertion
\* order: characters in roster order, then enemies in enemy-list order.
C9_TurnOrderSorted ==
  state.turn.phase = "execution" =>
    LET order == state.turn.turnOrder IN
    /\ {order[k].unitId : k \in 1..Len(order)}
         = {c \in DOMAIN state.turn.selectedCards :
              state.turn.selectedCards[c].cardA.id # "null"}
           \cup {state.enemies[i].id : i \in 1..Len(state.enemies)}
    /\ \A k \in 1..Len(order) :
         order[k].initiative = ClaimedInitiative(state, order[k])
    /\ \A k \in 1..Len(order), l \in 1..Len(order) :
         k < l => \/ order[k].initiative < order[l].initiative
                  \/ /\ order[k].initiative = order[l].initiative
                     /\ InsertionRank(state, order[k]) < InsertionRank(state, order[l])

\* A confirmed round in which two characters tie, and so do two enemies
C9_Witness ==
  /\ state.turn.phase = "execution"
  /\ LET order == state.turn.turnOrder IN
     /\ Len(order) = 4
     /\ \E k \in 1..3 : /\ order[k].type = "character"
                         /\ order[k + 1].type = "character"
                         /\ order[k].initiative = order[k + 1].initiative
     /\ \E k \in 1..3 : /\ order[k].type = "enemy"
                         /\ order[k + 1].type = "enemy"
                         /\ order[k].initiative = order[k + 1].initiative

\* C10: of the halves processed in a character turn the first is a half of
\* cardA and the second the opposite half of cardB, a different card.
C10_OneHalfOfEachCard ==
  \A k \in 1..Len(turnLog) :
    /\ turnLog[k].half \in {"top", "bottom"}
    /\ k = 1 => turnLog[k].actionIndex = 0
    /\ turnLog[k].actionIndex = 0 => turnLog[k].slot = "A"
    /\ turnLog[k].actionIndex = 1
         => /\ turnLog[k].slot = "B"
            /\ turnLog[k].half # turnLog[1].half
            /\ turnLog[k].card # turnLog[1].card

-----------------------------------------------------------------------------
(* Pacing of a turn *)

\* C11: within one character turn-order entry the first half and the second
\* half are each processed at most once, whatever the interleaving of the
\* player's clicks and skips with the pacing timers.
C11_EachHalfOnce ==
  \A k \in 1..Len(turnLog), l \in 1..Len(turnLog) :
    k < l => turnLog[k].actionIndex # turnLog[l].actionIndex

\* A timer of the given kind is due
TimerReady(kind) ==
  \E i \in 1..Len(timers) : CanFire(i) /\ timers[i].kind = kind

\* A pending timer fires once its delay has passed: setTimeout callbacks are
\* always run, the player's commands may or may not come.  This is weak
\* fairness of each timer action, its enabling condition written out: a
\* timer that is due fires, and firing it always changes the timer queue or
\* the turn index.
Fairness ==
  /\ []<>(~TimerReady("executeNextTurn")) \/ []<><<FireExecuteNextTurn>>_vars
  /\ []<>(~TimerReady("executeCharacterAction")) \/ []<><<FireExecuteCharacterAction>>_vars
  /\ []<>(~TimerReady("advanceTurn")) \/ []<><<FireAdvanceTurn>>_vars
  /\ []<>(~TimerReady("enemyAttack")) \/ []<><<FireEnemyAttack>>_vars

\* The hands of a round on its own: a ranged attack, a melee attack and a
\* self heal for the first character, the stun attack and the ranged heal
\* for the second
PaceHands == [ jack |-> <<"jack_03", "jack_07", "jack_09">>,
               sam  |-> <<"sam_01", "sam_06">> ]

\* A round on its own: the round the player confirmed in room `room` with
\* the hands `hands`, the first character at health h on hex pos, the
\* room's enemy on hex epos, cards a and b selected for the first character
\* and c and d for the second
ConfirmedRound(hands, room, h, pos, epos, a, b, c, d) ==
  LET st == StartMissionHandler(Ret(InitialState, <<>>)).st
      placed == [st EXCEPT
                   !.currentRoom = room,
                   !.characters = [i \in 1..Len(st.characters) |->
                      [st.characters[i] EXCEPT
                         !.hand = hands[st.characters[i].id],
                         !.health = IF i = 1 THEN h ELSE @,
                         !.position = IF i = 1 THEN pos ELSE @]],
                   !.enemies = [i \in 1..Len(SpawnList(room)) |->
                                  [SpawnList(room)[i] EXCEPT !.position = epos]]]
  IN ConfirmCardSelection(
       SelectCard(SelectCard(
         SelectCard(SelectCard(Ret(placed, <<>>), Roster[1].id, Cards[a]),
                    Roster[1].id, Cards[b]),
         Roster[2].id, Cards[c]), Roster[2].id, Cards[d]))

PaceStart(room, h, pos, epos, a, b, c, d) ==
  ConfirmedRound(PaceHands, room, h, pos, epos, a, b, c, d)

InitPace ==
  /\ \E room \in 1..(TOTAL_ROOMS - 1),
        h \in {Roster[1].maxHealth - 1, Roster[1].maxHealth},
        pos \in RoomHexes(Rooms[1]), epos \in RoomHexes(Rooms[1]),
        a \in Range(PaceHands[Roster[1].id]), b \in Range(PaceHands[Roster[1].id]),
        c \in Range(PaceHands[Roster[2].id]), d \in Range(PaceHands[Roster[2].id]) :
       /\ a # b
       /\ c # d
       /\ Cardinality({pos, epos, Rooms[1].startPositions[2]}) = 3
       /\ state = PaceStart(room, h, pos, epos, a, b, c, d).st
       /\ timers = PaceStart(room, h, pos, epos, a, b, c, d).tm
  /\ notified = {}
  /\ turnLog = <<>>
  /\ lastHit = <<>>
  /\ restarts = 0
  /\ deckState = NewDeckState
  /\ subs = NewSubs

\* The round runs on its timers; the player clicks hexes and units and skips
NextPace ==
  \/ HexClick
  \/ UnitClick
  \/ Skip
  \/ FireExecuteNextTurn
  \/ FireExecuteCharacterAction
  \/ FireAdvanceTurn
  \/ FireEnemyAttack

SpecPace == InitPace /\ [][NextPace]_vars

\* Half a of turn-order entry i is pending with nothing to choose from
EmptyPending(i, a) ==
  /\ state.phase = "playing"
  /\ state.turn.phase = "execution"
  /\ state.turn.currentTurnIndex = i
  /\ state.turn.currentAction.actionIndex = a
  /\ \/ /\ state.turn.currentAction.type = "move"
        /\ state.turn.currentAction.reachableHexes = {}
     \/ /\ state.turn.currentAction.type \in {"attack", "heal", "push"}
        /\ state.turn.currentAction.targets = {}

\* The round has gone past half a of entry i
Proceeded(i, a) ==
  \/ state.phase # "playing"
  \/ state.turn.phase = "selection"
  \/ state.turn.currentTurnIndex # i
  \/ /\ a = 0
     /\ \E k \in 1..Len(turnLog) : turnLog[k].actionIndex = 1

-----------------------------------------------------------------------------
(* Units that left the round *)

\* The character of the turn-order entry the store points at, 0 if none
EntryCharacter(st, chars) ==
  IF st.turn.currentTurnIndex >= Len(st.turn.turnOrder) THEN 0
  ELSE IndexOf(chars, st.turn.turnOrder[st.turn.currentTurnIndex + 1].unitId)

\* C13: a unit that was removed or is at health 0 or less after the turn
\* order was built takes no part in the rest of the round: a card half is
\* processed only for a character that is alive, and the attack callback of
\* an enemy that is no longer in the enemy list hits nobody.
C13_DeadUnitsPassedOver ==
  [][/\ (turnLog' # turnLog /\ turnLog' # <<>>)
          => /\ EntryCharacter(state', state.characters) # 0
             /\ state.characters[EntryCharacter(state', state.characters)].health > 0
     /\ (/\ FireEnemyAttack
         /\ \A i \in 1..Len(timers) :
              timers[i].kind = "enemyAttack"
                => IndexOf(state.enemies, timers[i].enemyId) = 0)
          => UnitsOf(state') = UnitsOf(state)]_vars


-----------------------------------------------------------------------------
(* The end of a round *)

\* The hands of a round in which the second character can shield itself
RoundHands == [ jack |-> <<"jack_03", "jack_07", "jack_09">>,
                sam  |-> <<"sam_01", "sam_06", "sam_09">> ]

\* A confirmed round in the first room, the enemy on its spawn hex
InitRound ==
  /\ \E pos \in RoomHexes(Rooms[1]),
        a \in Range(RoundHands[Roster[1].id]), b \in Range(RoundHands[Roster[1].id]),
        c \in Range(RoundHands[Roster[2].id]), d \in Range(RoundHands[Roster[2].id]) :
       /\ a # b
       /\ c # d
       /\ Cardinality({pos, SpawnList(1)[1].position, Rooms[1].startPositions[2]}) = 3
       /\ state = ConfirmedRound(RoundHands, 1, Roster[1].maxHealth, pos,
                                 SpawnList(1)[1].position, a, b, c, d).st
       /\ timers = ConfirmedRound(RoundHands, 1, Roster[1].maxHealth, pos,
                                  SpawnList(1)[1].position, a, b, c, d).tm
  /\ notified = {}
  /\ turnLog = <<>>
  /\ lastHit = <<>>
  /\ restarts = 0
  /\ deckState = NewDeckState
  /\ subs = NewSubs

\* The round runs as in NextPace; between rounds the player switches tabs,
\* asks for a rest and tries to confirm
NextRound ==
  \/ NextPace
  \/ TabClick
  \/ ShortRest
  \/ LongRest
  \/ Confirm

SpecRound == InitRound /\ [][NextRound]_vars

\* The cards the round's turn order holds for character id
PlayedBy(st, id) ==
  UNION { {st.turn.turnOrder[k].cardA.id, st.turn.turnOrder[k].cardB.id} :
            k \in { j \in 1..Len(st.turn.turnOrder) :
                      /\ st.turn.turnOrder[j].type = "character"
                      /\ st.turn.turnOrder[j].unitId = id } } \ {"null"}

C15_DefeatIffOutOfCards ==
  [][(/\ state.phase = "playing"
      /\ Len(state.enemies) > 0
      /\ \/ /\ state'.phase = "defeat"
            /\ \A i \in 1..Len(state.characters) :
                 state'.characters[i].health = state.characters[i].health
         \/ state.turn.phase = "execution" /\ state'.turn.phase = "selection"
      /\ RunsExecuteNextTurn)
       => (state'.phase = "defeat"
             <=> \A i \in 1..Len(state'.characters) :
                    Len(state'.characters[i].hand) < CARDS_TO_PLAY)]_vars


-----------------------------------------------------------------------------
(* Rests *)

\* The selected character, 0 when there is none
SelectedIndex == IndexOf(state.characters, state.ui.selectedCharacter)

\* The turn order a confirmation in state st would build holds no entry
\* for character id
NoEntryFor(st, id) ==
  \A k \in 1..Len(BuildTurnOrder(st)) :
    ~(BuildTurnOrder(st)[k].type = "character" /\ BuildTurnOrder(st)[k].unitId = id)

\* C16: a long rest taken in the selection phase by a character with fewer
\* than CARDS_TO_PLAY cards in hand leaves it flagged resting, the turn
\* order of the round confirmed next holds no entry for it, and the end of
\* that round clears the flag
C16_LongRestSitsOut ==
  (/\ Selecting
   /\ SelectedIndex # 0
   /\ Len(state.characters[SelectedIndex].hand) < CARDS_TO_PLAY)
    => ENABLED (/\ LongRest
                /\ state'.characters[SelectedIndex].resting
                /\ NoEntryFor(state', state.characters[SelectedIndex].id)
                /\ ~EndRound(Ret(state', <<>>)).st.characters[SelectedIndex].resting)


\* sequence s without its k-th element
RemoveAt(s, k) == SubSeq(s, 1, k - 1) \o SubSeq(s, k + 1, Len(s))

\* The selected character needs a short rest and may take one
ShortRestDue ==
  /\ SelectedIndex # 0
  /\ Len(state.characters[SelectedIndex].hand) < CARDS_TO_PLAY
  /\ Len(state.characters[SelectedIndex].discard) > 0

\* Character i came out of a short rest that burned the k-th discarded card
ShortRested(before, after, k) ==
  /\ after.discard = <<>>
  /\ after.hand = before.hand \o RemoveAt(before.discard, k)
  /\ "burned" \in DOMAIN after
  /\ before.discard[k] \in Range(after.burned)
  /\ after.health = before.health

\* C17: a short rest by a selected character with fewer than CARDS_TO_PLAY
\* cards in hand and a non-empty discard empties the discard, puts all of
\* it but one card into the hand and that card into the burned pool; a
\* short rest in any other case changes nothing
C17_ShortRest ==
  Selecting =>
    IF ShortRestDue
    THEN /\ ENABLED (/\ ShortRest
                     /\ \E k \in 1..Len(state.characters[SelectedIndex].discard) :
                          ShortRested(state.characters[SelectedIndex],
                                      state'.characters[SelectedIndex], k))
         /\ ~ENABLED (/\ ShortRest
                      /\ \A k \in 1..Len(state.characters[SelectedIndex].discard) :
                           ~ShortRested(state.characters[SelectedIndex],
                                        state'.characters[SelectedIndex], k))
    ELSE ~ENABLED (ShortRest /\ state' # state)


\* The burned pool of a character, empty for one that carries none
BurnedOf(char) == IF "burned" \in DOMAIN char THEN char.burned ELSE <<>>

\* Character `after` is `before` after a long rest
LongRested(before, after) ==
  /\ after.discard = <<>>
  /\ after.health = Min(before.maxHealth, before.health + LONG_REST_HEAL)
  /\ after.resting
  /\ IF BurnedOf(before) = <<>>
     THEN after.hand = before.hand \o before.discard
     ELSE \E k \in 1..Len(BurnedOf(before)) :
            /\ after.hand = before.hand \o before.discard \o <<BurnedOf(before)[k]>>
            /\ BurnedOf(after) = RemoveAt(BurnedOf(before), k)

\* C18: a long rest by a selected character with fewer than CARDS_TO_PLAY
\* cards in hand moves its discard into its hand together with one card of a
\* non-empty burned pool, raises its health by LONG_REST_HEAL up to
\* maxHealth and sets resting; every other character stays as it was
C18_LongRest ==
  (/\ Selecting
   /\ SelectedIndex # 0
   /\ Len(state.characters[SelectedIndex].hand) < CARDS_TO_PLAY)
    => /\ ENABLED (/\ LongRest
                   /\ LongRested(state.characters[SelectedIndex],
                                 state'.characters[SelectedIndex]))
       /\ ~ENABLED (/\ LongRest
                    /\ \/ ~LongRested(state.characters[SelectedIndex],
                                      state'.characters[SelectedIndex])
                       \/ \E j \in 1..Len(state.characters) :
                            /\ j # SelectedIndex
                            /\ state'.characters[j] # state.characters[j])


-----------------------------------------------------------------------------
(* Stun *)

\* Hands that last for more than one round
StunHands == [ jack |-> <<"jack_03", "jack_07", "jack_09", "jack_10">>,
               sam  |-> <<"sam_01", "sam_05", "sam_06", "sam_07">> ]

\* The health of a jaffa_warrior in the data table, which a stun attack of
\* 2 leaves standing
WarriorHealth == 6

\* A confirmed round in the first room, the enemy on its spawn hex with the
\* health of the table and either stunned in the round before or not
StunStart(a, b, c, d, stunned) ==
  LET r == ConfirmedRound(StunHands, 1, Roster[1].maxHealth, Rooms[1].startPositions[1],
                          SpawnList(1)[1].position, a, b, c, d)
  IN [r EXCEPT !.st.enemies = [i \in 1..Len(r.st.enemies) |->
                                 [r.st.enemies[i] EXCEPT !.stunned = stunned,
                                                         !.health = WarriorHealth,
                                                         !.maxHealth = WarriorHealth]]]

InitStun ==
  /\ \E a \in {"jack_03", "jack_07"}, b \in {"jack_03", "jack_07"},
        c \in {"sam_01", "sam_06"}, d \in {"sam_01", "sam_06"},
        stunned \in BOOLEAN :
       /\ a # b
       /\ c # d
       /\ state = StunStart(a, b, c, d, stunned).st
       /\ timers = StunStart(a, b, c, d, stunned).tm
  /\ notified = {}
  /\ turnLog = <<>>
  /\ lastHit = <<>>
  /\ restarts = 0
  /\ deckState = NewDeckState
  /\ subs = NewSubs

\* Rounds follow one another: the player confirms again after each
NextStun ==
  \/ NextPace
  \/ Confirm

SpecStun == InitStun /\ [][NextStun]_vars


\* The step runs executeNextTurn and leaves the turn of the i-th enemy
\* current: executeEnemyTurn has just run for it
EnemyEntryRuns(i) ==
  /\ state.phase = "playing"
  /\ state'.turn.phase = "execution"
  /\ state'.turn.currentTurnIndex < Len(state'.turn.turnOrder)
  /\ state'.turn.turnOrder[state'.turn.currentTurnIndex + 1].type = "enemy"
  /\ state'.turn.turnOrder[state'.turn.currentTurnIndex + 1].unitId = state.enemies[i].id
  /\ RunsExecuteNextTurn

\* The number of enemyAttack timers among tms
AttackTimers(tms) == Cardinality({k \in 1..Len(tms) : tms[k].kind = "enemyAttack"})

\* The nearest living character is within reach of an attack of `enemy`
InReach(enemy, st) ==
  LET t == FindNearestTarget(enemy, st.characters) IN
  /\ t # 0
  /\ HexDistance(enemy.position, st.characters[t].position) <= enemy.range
  /\ enemy.ai = "melee" \/ HexDistance(enemy.position, st.characters[t].position) > 1

\* C19: an enemy that is stunned when its turn is run neither moves nor
\* attacks in that turn and comes out of it with the stun cleared, so that
\* the flag is false when advanceTurn ends the turn; an enemy that is not
\* stunned when its turn is run acts: with a living character in reach it
\* hits one
C19_StunLastsOneTurn ==
  [][/\ \A i \in 1..Len(state.enemies) :
          EnemyEntryRuns(i) =>
            LET enemy == state.enemies[i]
                j == IndexOf(state'.enemies, state.enemies[i].id)
            IN IF enemy.stunned
               THEN /\ j # 0
                    /\ ~state'.enemies[j].stunned
                    /\ state'.enemies[j].position = enemy.position
                    /\ state'.characters = state.characters
                    /\ AttackTimers(timers') <= AttackTimers(timers)
               ELSE InReach(enemy, state)
                      => \E k \in 1..Len(lastHit') : lastHit'[k].amount = enemy.attack
     /\ (/\ state.turn.phase = "execution"
         /\ state.turn.currentTurnIndex < Len(state.turn.turnOrder)
         /\ state.turn.turnOrder[state.turn.currentTurnIndex + 1].type = "enemy"
         /\ FireAdvanceTurn)
          => \A i \in 1..Len(state.enemies) :
               state.enemies[i].id = state.turn.turnOrder[state.turn.currentTurnIndex + 1].unitId
                 => ~state.enemies[i].stunned]_vars


\* The turn of an enemy that a stun attack has hit and that came to its
\* turn stunned: the stun is cleared, the enemy has not hit the character in
\* its reach and only the short timer of a wait is pending
C19_Witness ==
  /\ state.phase = "playing"
  /\ state.turn.phase = "execution"
  /\ state.turn.currentTurnIndex < Len(state.turn.turnOrder)
  /\ state.turn.turnOrder[state.turn.currentTurnIndex + 1].type = "enemy"
  /\ Len(timers) = 1
  /\ timers[1].kind = "advanceTurn"
  /\ timers[1].delay = ACTION_DELAY
  /\ \E i \in 1..Len(state.enemies) :
       /\ state.enemies[i].id = state.turn.turnOrder[state.turn.currentTurnIndex + 1].unitId
       /\ ~state.enemies[i].stunned
       /\ state.enemies[i].health < WarriorHealth
       /\ InReach(state.enemies[i], state)


\* C20: an attack with the stun flag on an enemy of health h with damage d
\* leaves the enemy stunned exactly when it survives, that is when it is
\* still in the enemy list with health h - d > 0
C20_StunnedIffSurvived ==
  [][\A i \in 1..Len(state.enemies), d \in 1..MaxAmount :
       Handle(ExecuteAttack(Begin, state, state.enemies[i].id, d, TRUE), timers)
         => LET j == IndexOf(state'.enemies, state.enemies[i].id) IN
            /\ j # 0 <=> state.enemies[i].health - d > 0
            /\ j # 0 => /\ state'.enemies[j].health = state.enemies[i].health - d
                        /\ state'.enemies[j].stunned]_vars


-----------------------------------------------------------------------------
(* Area attacks *)

\* The hexes of the first room that no character starts on
AoeHexes == << <<2, 0>>, <<0, 1>>, <<1, 1>>, <<2, 1>> >>

\* A room-1 encounter of four warriors, one on each free hex
AoeEnemies(hs) ==
  [i \in 1..Len(AoeHexes) |->
     [SpawnList(1)[1] EXCEPT !.id = EnemyIds[i], !.position = AoeHexes[i],
                             !.health = hs[i]]]

InitAoe ==
  /\ \E hs \in [1..Len(AoeHexes) -> {1, 3}] :
       state = [CombatState(<<Roster[1].maxHealth, Roster[2].maxHealth>>, <<0, 0>>, 1, 1)
                  EXCEPT !.enemies = AoeEnemies(hs)]
  /\ timers = <<>>
  /\ notified = {}
  /\ turnLog = <<>>
  /\ lastHit = <<>>
  /\ restarts = 0
  /\ deckState = NewDeckState
  /\ subs = NewSubs

\* Nothing but area attacks, of either radius, on any of the enemies
SpecAoe == InitAoe /\ [][CombatAoeAttack]_vars

\* The health of the enemy called id in st, 0 for one that has left the list
HealthIn(st, id) ==
  IF IndexOf(st.enemies, id) = 0 THEN 0 ELSE st.enemies[IndexOf(st.enemies, id)].health

\* The enemies other than the i-th that the step has damaged
Collateral(i) ==
  {j \in 1..Len(state.enemies) :
     j # i /\ HealthIn(state', state.enemies[j].id) < state.enemies[j].health}

-----------------------------------------------------------------------------
(* Heals *)

HealedBy(char, amount) ==
  [char EXCEPT !.health = Min(char.maxHealth, char.health + amount)]

\* The characters an "All allies" heal is meant for
Wounded(char) == char.health > 0 /\ char.health < char.maxHealth

\* The character whose turn it is, as executeNextAction looks it up
TurnUnit ==
  state.characters[IndexOf(state.characters,
                           state.turn.turnOrder[state.turn.currentTurnIndex + 1].unitId)]

\* C22: a heal sets its target's health to min(maxHealth, health + amount)
\* and changes no other character and no other field, also when it is one of
\* the heals of an "All allies" heal; a pending ranged heal offers only
\* living characters within range whose health is below maxHealth.
C22_HealOnlyTarget ==
  /\ [][/\ \A i \in 1..Len(state.characters), amount \in 1..MaxAmount :
             Handle(ExecuteHeal(Begin, state, state.characters[i].id, amount), timers)
               => state' = [state EXCEPT
                              !.characters[i] = HealedBy(state.characters[i], amount)]
        /\ \A amount \in 1..MaxAmount :
             Handle(AoeHeal(Begin, state, 1, amount), timers)
               => state' = [state EXCEPT !.characters =
                              [i \in 1..Len(state.characters) |->
                                 IF Wounded(state.characters[i])
                                 THEN HealedBy(state.characters[i], amount)
                                 ELSE state.characters[i]]]]_vars
  /\ [](state.turn.currentAction.type = "heal"
          => \A id \in state.turn.currentAction.targets :
               LET char == state.characters[IndexOf(state.characters, id)] IN
               /\ Wounded(char)
               /\ HexDistance(TurnUnit.position, char.position)
                    <= state.turn.currentAction.range)


-----------------------------------------------------------------------------
(* Pushes *)

MaxPush == 2

\* Room 1 with both characters anywhere and two warriors anywhere in its
\* two left columns
InitPush ==
  /\ \E pj, ps \in RoomHexes(Rooms[1]), p1, p2 \in {h \in RoomHexes(Rooms[1]) : h[1] <= 1} :
       /\ Cardinality({pj, ps, p1, p2}) = 4
       /\ state = [CombatState(<<Roster[1].maxHealth, Roster[2].maxHealth>>, <<0, 0>>, 4, 4)
                     EXCEPT !.characters = [i \in 1..Len(@) |->
                                              [@[i] EXCEPT !.position = <<pj, ps>>[i]]],
                            !.enemies = [i \in 1..2 |->
                                           [SpawnList(1)[1] EXCEPT
                                              !.id = EnemyIds[i],
                                              !.position = <<p1, p2>>[i]]]]
  /\ timers = <<>>
  /\ notified = {}
  /\ turnLog = <<>>
  /\ lastHit = <<>>
  /\ restarts = 0
  /\ deckState = NewDeckState
  /\ subs = NewSubs

\* A push of an enemy as onUnitClick calls it: the pusher is the unit
\* object of the turn entry, standing where it stood when the round's order
\* was built
CombatPush ==
  /\ Playing
  /\ \E j \in 1..Len(state.enemies), distance \in 1..MaxPush :
       \E pusherPos \in RoomHexes(Room(state)) \ {state.enemies[j].position} :
       Handle(ExecutePush(Begin, state, pusherPos, state.enemies[j].id, distance), timers)

SpecPush == InitPush /\ [][CombatPush]_vars

\* No unit but the target stands on the hex, which is inside the room and no wall
FreeFor(hex, targetId) ==
  /\ hex[1] >= 0 /\ hex[1] < Room(state).width
  /\ hex[2] >= 0 /\ hex[2] < Room(state).height
  /\ hex \notin Room(state).walls
  /\ \A i \in 1..Len(state.characters) :
       state.characters[i].id = targetId \/ state.characters[i].position # hex
  /\ \A i \in 1..Len(state.enemies) :
       state.enemies[i].id = targetId \/ state.enemies[i].position # hex

\* The n-th hex from `from` along `direction`
Along(from, direction, n) == <<from[1] + n * direction[1], from[2] + n * direction[2]>>

-----------------------------------------------------------------------------
(* Movement *)

MaxMove == 3

\* Room 1 as startMission leaves it: both characters on their start hexes,
\* the warrior on its spawn hex
InitMove ==
  /\ state = StartMissionHandler(Ret(InitialState, <<>>)).st
  /\ timers = <<>>
  /\ notified = {}
  /\ turnLog = <<>>
  /\ lastHit = <<>>
  /\ restarts = 0
  /\ deckState = NewDeckState
  /\ subs = NewSubs

\* A move of a character as onHexClick performs it on one of the hexes
\* processAction offered
MoveCharacter ==
  /\ Playing
  /\ \E i \in 1..Len(state.characters), range \in 0..MaxMove :
       \E hex \in Range(GetReachableHexes(state.characters[i].position, range, state)) :
         Handle(ExecuteMove(Begin, state, state.characters[i].id, hex), timers)

\* A move of an enemy as executeEnemyTurn performs it on a hex of its
\* reachable list
MoveEnemy ==
  /\ Playing
  /\ \E i \in 1..Len(state.enemies) :
       \E hex \in Range(GetReachableHexes(state.enemies[i].position,
                                          state.enemies[i].move, state)) :
         Handle(ExecuteMove(Begin, state, state.enemies[i].id, hex), timers)

\* An attack of a character that defeats the enemy, which leaves the room
DefeatEnemy ==
  /\ Playing
  /\ \E i \in 1..Len(state.enemies) :
       Handle(ExecuteAttack(Begin, state, state.enemies[i].id,
                            state.enemies[i].health, FALSE), timers)

SpecMove == InitMove /\ [][MoveCharacter \/ MoveEnemy \/ DefeatEnemy]_vars

\* The hexes on which a unit stands
UnitHexes ==
  {state.characters[i].position : i \in 1..Len(state.characters)}
    \cup {state.enemies[i].position : i \in 1..Len(state.enemies)}

RECURSIVE ChainEnds(_, _)
\* The hexes a chain of at most n free neighbours connects to `start`
ChainEnds(start, n) ==
  IF n = 0 THEN {start}
  ELSE LET near == ChainEnds(start, n - 1) IN
       near \cup {h \in RoomHexes(Room(state)) :
                    FreeFor(h, "none") /\ \E g \in near : HexDistance(g, h) = 1}

\* The length of the shortest chain of free neighbours from `start` to `hex`;
\* -1 when there is none
StepDistance(start, hex) ==
  LET most == Cardinality(RoomHexes(Room(state))) IN
  IF hex \notin ChainEnds(start, most) THEN -1
  ELSE CHOOSE n \in 0..most :
         hex \in ChainEnds(start, n) /\ \A m \in 0..(n - 1) : hex \notin ChainEnds(start, m)

\* C24: getReachableHexes returns nothing for range 0, and otherwise each
\* hex other than the start that a chain of at most `range` free neighbours
\* connects to it, once, with its least step count, and no hex that is out
\* of bounds, a wall or occupied.
C24_ReachableHexes ==
  \A start \in UnitHexes, range \in 0..MaxMove :
    LET reachable == ReachableWithDistance(start, range, state) IN
    /\ range = 0 => reachable = <<>>
    /\ \A i, j \in 1..Len(reachable) : reachable[i].hex = reachable[j].hex => i = j
    /\ \A i \in 1..Len(reachable) :
         /\ reachable[i].hex # start
         /\ FreeFor(reachable[i].hex, "none")
         /\ reachable[i].distance >= 1 /\ reachable[i].distance <= range
         /\ reachable[i].distance = StepDistance(start, reachable[i].hex)
    /\ \A hex \in ChainEnds(start, range) \ {start} :
         \E i \in 1..Len(reachable) : reachable[i].hex = hex

\* The middle column has filled up: of the three free hexes the first
\* character reaches one in a step and the others, behind the units, not at all
C24_Witness ==
  /\ state.characters[1].position = <<0, 0>>
  /\ {<<1, 0>>, <<1, 1>>} \subseteq UnitHexes
  /\ <<0, 1>> \notin UnitHexes
  /\ GetReachableHexes(<<0, 0>>, MaxMove, state) = << <<0, 1>> >>


\* The hexes of the room and the ring of hexes around it
GoalHexes == ((0 - 1)..Room(state).width) \X ((0 - 1)..Room(state).height)

\* C25: findPath returns [start] when start is the goal, nothing when the
\* goal is not walkable or no chain of free neighbours leads to it, and
\* otherwise a path from start to goal of adjacent hexes, free after the
\* start, with as many steps as the shortest chain has.
C25_FindPath ==
  \A start \in RoomHexes(Room(state)), goal \in GoalHexes :
    LET path == FindPath(start, goal, state) IN
    IF start = goal THEN path = <<start>>
    ELSE IF ~FreeFor(goal, "none") \/ StepDistance(start, goal) = -1 THEN path = <<>>
    ELSE /\ Len(path) = StepDistance(start, goal) + 1
         /\ path[1] = start
         /\ path[Len(path)] = goal
         /\ \A i \in 1..(Len(path) - 1) : HexDistance(path[i], path[i + 1]) = 1
         /\ \A i \in 2..Len(path) : FreeFor(path[i], "none")

\* The enemy has moved between the first character and the hex two steps
\* to its right, which the path now reaches in three steps round the enemy
C25_Witness ==
  /\ state.characters[1].position = <<0, 0>>
  /\ Len(state.enemies) = 1
  /\ state.enemies[1].position = <<1, 0>>
  /\ Len(FindPath(<<0, 0>>, <<2, 0>>, state)) = 4


-----------------------------------------------------------------------------
(* The modifier deck *)

\* ModifierDeck.shuffle: every order Fisher-Yates can give
Shuffles(deck) ==
  {[i \in 1..Len(deck) |-> deck[p[i]]] : p \in Permutations(1..Len(deck))}

\* The refill at the head of ModifierDeck.draw: only an empty pile is
\* refilled; `shuffled` is what shuffle(deckState.cards) returns
Refill(ds, shuffled) ==
  IF Len(ds.remaining) = 0
  THEN [ds EXCEPT !.remaining = shuffled, !.needsReshuffle = FALSE]
  ELSE ds

\* ModifierDeck.draw(deckState): pop, flag, return
DrawModifier(ds, shuffled) ==
  LET filled == Refill(ds, shuffled)
      modifier == filled.remaining[Len(filled.remaining)]
  IN [filled EXCEPT
        !.remaining = SubSeq(@, 1, Len(@) - 1),
        !.needsReshuffle = IF modifier.type \in {"multiply", "null"} THEN TRUE ELSE @,
        !.modifier = modifier]

InitDeck ==
  /\ state = InitialState
  /\ timers = <<>>
  /\ notified = {}
  /\ turnLog = <<>>
  /\ lastHit = <<>>
  /\ restarts = 0
  /\ deckState = NewDeckState
  /\ subs = NewSubs

Draw ==
  /\ \E shuffled \in Shuffles(deckState.cards) :
       deckState' = DrawModifier(deckState, shuffled)
  /\ UNCHANGED <<state, timers, notified, turnLog, lastHit, restarts, subs>>

SpecDeck == InitDeck /\ [][Draw]_vars

\* The previous draw returned the x2 or the MISS card
DrewReshuffleCard == deckState.modifier.type \in {"multiply", "null"}

\* C26: a draw reshuffles the full card set into the remaining pile first
\* if and only if the pile is empty or the previous draw returned the x2 or
\* the MISS card, so that the pile is left one card short of the full set;
\* any other draw just takes the top card off the pile.
C26_ReshuffleBeforeDraw ==
  [][Draw =>
       IF Len(deckState.remaining) = 0 \/ DrewReshuffleCard
       THEN \E shuffled \in Shuffles(deckState.cards) :
              /\ deckState'.remaining = SubSeq(shuffled, 1, Len(shuffled) - 1)
              /\ deckState'.modifier = shuffled[Len(shuffled)]
       ELSE /\ deckState'.remaining =
                 SubSeq(deckState.remaining, 1, Len(deckState.remaining) - 1)
            /\ deckState'.modifier = deckState.remaining[Len(deckState.remaining)]]_vars


-----------------------------------------------------------------------------
(* Enemy decisions *)

\* The enemies of a round in room `room`: the room's enemy on hex epos and,
\* unless epos2 is NoHex, a warrior on hex epos2
AiEnemies(room, epos, epos2) ==
  << [SpawnList(room)[1] EXCEPT !.position = epos] >>
  \o (IF epos2 = NoHex THEN <<>>
      ELSE << [SpawnList(1)[1] EXCEPT !.id = EnemyIds[2], !.position = epos2] >>)

\* The round the player confirmed in room `room` with both characters on
\* their start hexes, the first one wounded, and these enemies: the self heal
\* and the long move for the first character, the self shield and the ranged
\* heal for the second
AiRound(room, enemies) ==
  LET st == StartMissionHandler(Ret(InitialState, <<>>)).st
      placed == [st EXCEPT
                   !.currentRoom = room,
                   !.characters = [i \in 1..Len(st.characters) |->
                      [st.characters[i] EXCEPT
                         !.hand = RoundHands[st.characters[i].id],
                         !.health = IF i = 1 THEN @ - 1 ELSE @,
                         !.position = Rooms[room].startPositions[i]]],
                   !.enemies = enemies]
  IN ConfirmCardSelection(
       SelectCard(SelectCard(
         SelectCard(SelectCard(Ret(placed, <<>>), Roster[1].id, Cards["jack_09"]),
                    Roster[1].id, Cards["jack_07"]),
         Roster[2].id, Cards["sam_09"]), Roster[2].id, Cards["sam_06"]))

\* A confirmed round in the second or the third room, the enemies on any
\* free hexes
InitAi ==
  /\ \E room \in 2..TOTAL_ROOMS :
       \E epos \in RoomHexes(Rooms[room]) \ Range(Rooms[room].startPositions) :
         \E epos2 \in (RoomHexes(Rooms[room]) \ (Range(Rooms[room].startPositions) \cup {epos}))
                        \cup {NoHex} :
           /\ state = AiRound(room, AiEnemies(room, epos, epos2)).st
           /\ timers = AiRound(room, AiEnemies(room, epos, epos2)).tm
  /\ notified = {}
  /\ turnLog = <<>>
  /\ lastHit = <<>>
  /\ restarts = 0
  /\ deckState = NewDeckState
  /\ subs = NewSubs

SpecAi == InitAi /\ [][NextPace]_vars

\* The character the enemy goes for: the nearest living one
TargetOf(enemy, st) == st.characters[FindNearestTarget(enemy, st.characters)]

\* The enemy has a living character to go for, which is out of its reach
OutOfReach(enemy, st) ==
  /\ FindNearestTarget(enemy, st.characters) # 0
  /\ HexDistance(enemy.position, TargetOf(enemy, st).position) > enemy.range

\* The hexes the enemy can move to that are closer to its target than its own
CloserHexes(enemy, st) ==
  {h \in Range(GetReachableHexes(enemy.position, enemy.move, st)) :
     HexDistance(h, TargetOf(enemy, st).position)
       < HexDistance(enemy.position, TargetOf(enemy, st).position)}

\* C28: a melee enemy that comes to its turn out of reach of its target
\* moves only to a reachable hex strictly closer to the target than its own;
\* when no reachable hex is closer it decides wait and stays where it is.
C28_MeleeMovesCloserOrWaits ==
  [][\A i \in 1..Len(state.enemies) :
       (/\ state.enemies[i].ai = "melee"
        /\ ~state.enemies[i].stunned
        /\ OutOfReach(state.enemies[i], state)
        /\ EnemyEntryRuns(i))
         => LET enemy == state.enemies[i]
                j == IndexOf(state'.enemies, enemy.id)
            IN /\ j # 0
               /\ state'.enemies[j].position # enemy.position
                    => state'.enemies[j].position \in CloserHexes(enemy, state)
               /\ CloserHexes(enemy, state) = {}
                    => /\ DecideAction(enemy, state).type = "wait"
                       /\ state'.enemies[j].position = enemy.position]_vars


\* A hex next to the enemy's target can be reached in one step less than
\* the target is hexes away: the way to it is clear
ClearPath(enemy, st) ==
  LET target == TargetOf(enemy, st)
      distance == HexDistance(enemy.position, target.position)
      reachable == ReachableWithDistance(enemy.position, distance - 1, st)
  IN \E k \in 1..Len(reachable) :
       /\ HexDistance(reachable[k].hex, target.position) = 1
       /\ reachable[k].distance = distance - 1

\* A melee enemy of move 2 and range 1 comes to its turn, not stunned, d
\* hexes from the nearest character with a clear path
MeleeTurnAt(i, d) ==
  /\ state.enemies[i].ai = "melee"
  /\ state.enemies[i].move = 2
  /\ state.enemies[i].range = 1
  /\ ~state.enemies[i].stunned
  /\ FindNearestTarget(state.enemies[i], state.characters) # 0
  /\ HexDistance(state.enemies[i].position, TargetOf(state.enemies[i], state).position) = d
  /\ ClearPath(state.enemies[i], state)
  /\ EnemyEntryRuns(i)

\* The enemy's turn has left a timer for its attack on the character
AttackPending(tms, enemyId, targetId) ==
  \E k \in 1..Len(tms) :
    tms[k].kind = "enemyAttack" /\ tms[k].enemyId = enemyId /\ tms[k].targetId = targetId

HitBy(enemy, targetId) ==
  \E k \in 1..Len(lastHit') : lastHit'[k].id = targetId /\ lastHit'[k].amount = enemy.attack

\* C29: a ranged enemy attacks from its hex without moving when its target
\* is more than 1 hex away and within range; next to its target it moves to
\* a retreat hex, and attacks in the same turn exactly when that hex is
\* within range of the target; it attacks in place from the adjacent hex
\* only when it has no hex to retreat to.
C29_RangedKeepsDistance ==
  [][\A i \in 1..Len(state.enemies) :
       (/\ state.enemies[i].ai = "ranged"
        /\ ~state.enemies[i].stunned
        /\ FindNearestTarget(state.enemies[i], state.characters) # 0
        /\ EnemyEntryRuns(i))
         => LET enemy == state.enemies[i]
                target == TargetOf(enemy, state)
                distance == HexDistance(enemy.position, target.position)
                reachable == GetReachableHexes(enemy.position, enemy.move, state)
                j == IndexOf(state'.enemies, enemy.id)
            IN /\ j # 0
               /\ (distance > 1 /\ distance <= enemy.range)
                    => /\ state'.enemies[j].position = enemy.position
                       /\ HitBy(enemy, target.id)
               /\ (distance = 1 /\ reachable # <<>>)
                    => /\ state'.enemies[j].position \in Range(reachable)
                       /\ state'.enemies[j].position # enemy.position
                       /\ state'.characters = state.characters
                       /\ AttackPending(timers', enemy.id, target.id)
                            <=> HexDistance(state'.enemies[j].position, target.position)
                                  <= enemy.range
               /\ (distance = 1 /\ reachable = <<>>)
                    => /\ state'.enemies[j].position = enemy.position
                       /\ HitBy(enemy, target.id)]_vars

\* The turn of a serpent guard in a corner with a character and a warrior
\* on the two hexes next to it: it has stayed and hit the character
C29_Witness ==
  /\ state.turn.phase = "execution"
  /\ state.turn.currentTurnIndex < Len(state.turn.turnOrder)
  /\ state.turn.turnOrder[state.turn.currentTurnIndex + 1].type = "enemy"
  /\ \E i \in 1..Len(state.enemies), c \in 1..Len(state.characters) :
       /\ state.enemies[i].id = state.turn.turnOrder[state.turn.currentTurnIndex + 1].unitId
       /\ state.enemies[i].ai = "ranged"
       /\ HexDistance(state.enemies[i].position, state.characters[c].position) = 1
       /\ GetReachableHexes(state.enemies[i].position, state.enemies[i].move, state) = <<>>
       /\ \E k \in 1..Len(lastHit) :
            /\ lastHit[k].id = state.characters[c].id
            /\ lastHit[k].amount = state.enemies[i].attack


-----------------------------------------------------------------------------
(* Clicks *)

\* The hands of a round of clicks: a ranged and a melee attack for the
\* first character; for the second, who stands for every support character
\* of the roster, the cards whose top half waits for a unit: the ally
\* shield, the ranged heal and the push
ClickHands == [ jack |-> <<"jack_03", "jack_07">>,
                sam  |-> <<"sam_04", "sam_06", "daniel_03">> ]

\* A confirmed round in the first or the last room: the first character
\* wounded, the enemy on any free hex, any two cards of each hand in either
\* order
InitClick ==
  /\ \E room \in {1, TOTAL_ROOMS} :
       \E epos \in RoomHexes(Rooms[room]) \ Range(Rooms[room].startPositions),
          a \in Range(ClickHands[Roster[1].id]), b \in Range(ClickHands[Roster[1].id]),
          c \in Range(ClickHands[Roster[2].id]), d \in Range(ClickHands[Roster[2].id]) :
         /\ a # b
         /\ c # d
         /\ state = ConfirmedRound(ClickHands, room, Roster[1].maxHealth - 1,
                                   Rooms[room].startPositions[1], epos, a, b, c, d).st
         /\ timers = ConfirmedRound(ClickHands, room, Roster[1].maxHealth - 1,
                                    Rooms[room].startPositions[1], epos, a, b, c, d).tm
  /\ notified = {}
  /\ turnLog = <<>>
  /\ lastHit = <<>>
  /\ restarts = 0
  /\ deckState = NewDeckState
  /\ subs = NewSubs

SpecClick == InitClick /\ [][NextPace]_vars

\* A click on the hex is off the legal set: no move is pending, or the hex
\* is not one the pending move can reach
OffLegalHex(hex) ==
  \/ state.turn.currentAction.type # "move"
  \/ hex \notin state.turn.currentAction.reachableHexes

\* A click on the unit is off the legal set: no action that takes a unit is
\* pending, the unit is not a target of the pending action, or it is of the
\* wrong class for it
OffLegalUnit(unitId, type) ==
  LET currentAction == state.turn.currentAction IN
  \/ currentAction.type \notin {"attack", "push", "heal", "shield"}
  \/ unitId \notin currentAction.targets
  \/ currentAction.type \in {"attack", "push"} /\ type # "enemy"
  \/ currentAction.type \in {"heal", "shield"} /\ type # "character"

\* C30: a click on a hex or on a unit that is off the legal set (no action
\* pending, a hex the pending move cannot reach, a unit that is no target
\* of the pending attack, heal, push or shield, a unit of the wrong class)
\* changes nothing: the store, the pending action in it, the timers and the
\* observers are as they were.
C30_OffLegalClickIgnored ==
  Playing =>
    /\ \A hex \in RoomHexes(Room(state)) :
         OffLegalHex(hex) => OnHexClick(Begin, hex) = Begin
    /\ \A i \in 1..Len(state.characters) :
         OffLegalUnit(state.characters[i].id, "character")
           => OnUnitClick(Begin, state.characters[i].id, "character") = Begin
    /\ \A i \in 1..Len(state.enemies) :
         OffLegalUnit(state.enemies[i].id, "enemy")
           => OnUnitClick(Begin, state.enemies[i].id, "enemy") = Begin

\* A move is pending in the second half of a turn whose first half moved the
\* unit, and a hex of the room is out of its reach
C30_Witness ==
  /\ Playing
  /\ state.turn.currentAction.type = "move"
  /\ state.turn.currentAction.actionIndex = 1
  /\ \E hex \in RoomHexes(Room(state)) : hex \notin state.turn.currentAction.reachableHexes
  /\ \E i \in 1..Len(state.characters) :
       /\ state.characters[i].id = state.turn.turnOrder[state.turn.currentTurnIndex + 1].unitId
       /\ state.characters[i].position # state.turn.turnOrder[state.turn.currentTurnIndex + 1].position


-----------------------------------------------------------------------------
(* The store on its own: subscriptions, mutations, undo *)

\* The functions passed to subscribe
Listeners == {"render", "log"}

\* Subscriptions held at once
MaxListeners == 3

\* Store._maxHistory, 50 in the source, cut down so that the history fills
MaxHistory == 2

\* The updates passed to setState: a phase, a room
Updates ==
  [key : {"phase"}, value : {"briefing", "playing"}]
    \cup [key : {"currentRoom"}, value : 1..2]

\* Store._deepMerge(state, updates) for an update of one top-level key
MergeUpdate(st, u) ==
  IF u.key = "phase" THEN [st EXCEPT !.phase = u.value]
  ELSE [st EXCEPT !.currentRoom = u.value]

\* Store._notify: every entry of _listeners is called with _state, in order
Notify(listeners, st) ==
  [i \in 1..Len(listeners) |-> [listener |-> listeners[i], st |-> st]]

\* Store.setState(updates): a copy of the state goes on the history, the
\* oldest entry leaves a history that is too long
PushHistory(history, st) ==
  LET pushed == Append(history, st) IN
  IF Len(pushed) > MaxHistory THEN Tail(pushed) ELSE pushed

InitStore ==
  /\ state = InitialState
  /\ timers = <<>>
  /\ notified = {}
  /\ turnLog = <<>>
  /\ lastHit = <<>>
  /\ restarts = 0
  /\ deckState = NewDeckState
  /\ subs = NewSubs

\* Store.subscribe(listener): the listener is pushed, its unsubscribe
\* function returned
StoreSubscribe ==
  /\ Len(subs.listeners) < MaxListeners
  /\ \E l \in Listeners :
       subs' = [subs EXCEPT !.listeners = Append(@, l), !.handles = @ \cup {l},
                            !.op = "subscribe", !.calls = <<>>]
  /\ UNCHANGED <<state, timers, notified, turnLog, lastHit, restarts, deckState>>

\* A call of an unsubscribe function subscribe returned: every entry equal
\* to its listener is filtered out
StoreUnsubscribe ==
  /\ \E l \in subs.handles :
       subs' = [subs EXCEPT !.listeners = SelectSeq(@, LAMBDA x : x # l),
                            !.op = "unsubscribe", !.calls = <<>>]
  /\ UNCHANGED <<state, timers, notified, turnLog, lastHit, restarts, deckState>>

\* Store.setState(updates)
StoreSetState ==
  /\ \E u \in Updates :
       /\ state' = MergeUpdate(state, u)
       /\ subs' = [subs EXCEPT !.history = PushHistory(@, state),
                               !.op = "setState",
                               !.calls = Notify(subs.listeners, MergeUpdate(state, u))]
  /\ UNCHANGED <<timers, notified, turnLog, lastHit, restarts, deckState>>

\* Store.reset(newState), called with the initial state as restartGame does
StoreReset ==
  /\ state' = InitialState
  /\ subs' = [subs EXCEPT !.history = <<>>, !.op = "reset",
                          !.calls = Notify(subs.listeners, InitialState)]
  /\ UNCHANGED <<timers, notified, turnLog, lastHit, restarts, deckState>>

\* Store.undo(): false and no change on an empty history
StoreUndo ==
  /\ IF Len(subs.history) = 0
     THEN /\ subs' = [subs EXCEPT !.op = "undo", !.calls = <<>>]
          /\ UNCHANGED state
     ELSE /\ state' = subs.history[Len(subs.history)]
          /\ subs' = [subs EXCEPT !.history = SubSeq(@, 1, Len(@) - 1),
                                  !.op = "undo",
                                  !.calls = Notify(subs.listeners,
                                                   subs.history[Len(subs.history)])]
  /\ UNCHANGED <<timers, notified, turnLog, lastHit, restarts, deckState>>

NextStore ==
  \/ StoreSubscribe
  \/ StoreUnsubscribe
  \/ StoreSetState
  \/ StoreReset
  \/ StoreUndo

SpecStore == InitStore /\ [][NextStore]_vars

\* The step is a store mutation: a setState, a reset, an undo that found
\* a state to go back to
Mutation ==
  \/ subs'.op \in {"setState", "reset"}
  \/ subs'.op = "undo" /\ Len(subs.history) > 0

\* How many listener calls of the step went to listener l
CallsTo(l) == Cardinality({ i \in 1..Len(subs'.calls) : subs'.calls[i].listener = l })

\* C31: every store mutation (setState, reset, successful undo) calls each
\* listener that is subscribed at that moment exactly once, after the
\* mutation and with the state the mutation left; a listener that is not
\* subscribed, one whose unsubscribe function has been called included, is
\* not called.
C31_NotifyEachListenerOnce ==
  [][Mutation =>
       /\ \A l \in Listeners :
            CallsTo(l) = IF l \in Range(subs.listeners) THEN 1 ELSE 0
       /\ \A i \in 1..Len(subs'.calls) : subs'.calls[i].st = state']_vars


-----------------------------------------------------------------------------
(* Selections across rounds *)

\* The step confirms a round: the turn phase goes from selection to execution
RoundConfirmed ==
  /\ Selecting
  /\ state'.turn.phase = "execution"

\* The step ends a round and the game goes on
RoundEndedGameOn ==
  /\ Playing
  /\ state.turn.phase = "execution"
  /\ state'.phase = "playing"
  /\ state'.turn.phase = "selection"

\* The character holds a selection: a first or a second card
HoldsSelection(st, id) ==
  /\ id \in DOMAIN st.turn.selectedCards
  /\ \/ st.turn.selectedCards[id].cardA.id # "null"
     \/ st.turn.selectedCards[id].cardB.id # "null"

\* C32: whenever a round is confirmed, every character entry of the turn
\* order holds two distinct cards, both in the hand of that character at
\* that moment; a card of the discard is never played.
C32_ConfirmedCardsInHand ==
  [][RoundConfirmed =>
       \A k \in 1..Len(state'.turn.turnOrder) :
         LET e == state'.turn.turnOrder[k] IN
         e.type = "character" =>
           LET char == state.characters[IndexOf(state.characters, e.unitId)] IN
           /\ e.cardA.id # e.cardB.id
           /\ e.cardA.id \in Range(char.hand)
           /\ e.cardB.id \in Range(char.hand)
           /\ e.cardA.id \notin Range(char.discard)
           /\ e.cardB.id \notin Range(char.discard)]_vars

\* C33: after a round end that lets the game go on (next round, next room,
\* last room cleared without the artifact) no character holds a selection
\* and the turn phase is selection, so that the round cannot be confirmed
\* before cards are selected again.
C33_RoundEndClearsSelections ==
  [][RoundEndedGameOn =>
       /\ \A i \in 1..Len(state'.characters) :
            ~HoldsSelection(state', state'.characters[i].id)
       /\ (\E i \in 1..Len(state'.characters) :
             Len(state'.characters[i].hand) >= CARDS_TO_PLAY)
            => ConfirmCardSelection(Ret(state', <<>>)).st = state']_vars


-----------------------------------------------------------------------------
(* Units on the board *)

\* The hexes the units of the store stand on: the characters, then the
\* enemies that live
UnitPositions(st) ==
  [i \in 1..Len(st.characters) |-> st.characters[i].position]
    \o [i \in 1..Len(SelectSeq(st.enemies, LAMBDA e : e.health > 0)) |->
          SelectSeq(st.enemies, LAMBDA e : e.health > 0)[i].position]

-----------------------------------------------------------------------------
(* Cards *)

\* C35: for every character, after any sequence of card selections,
\* confirmed rounds, round ends, rests and room advances, the hand, the
\* discard and the burned pool are pairwise disjoint and together hold
\* exactly the cards of the character's starting deck.
C35_CardsConserved ==
  \A i \in 1..Len(state.characters) :
    LET char == state.characters[i]
        piles == char.hand \o char.discard \o BurnedOf(char)
    IN /\ Range(piles) = Range(Decks[char.id])
       /\ Len(piles) = Len(Decks[char.id])

\* A round has ended and the room has changed: a character has two cards of
\* its deck in the discard and the others in hand
C35_Witness ==
  /\ Selecting
  /\ state.currentRoom > 1
  /\ \E i \in 1..Len(state.characters) :
       /\ Len(state.characters[i].discard) = CARDS_TO_PLAY
       /\ Len(state.characters[i].hand) = Len(Decks[state.characters[i].id]) - CARDS_TO_PLAY


\* C36: after any sequence of select-card commands each card held as cardA
\* or cardB in a selection is field for field the card of the table that
\* was passed to select-card: no range, stun, aoe, aoeRadius or push of a
\* card selected before is left in the halves of the card that replaces it.
C36_SelectionEqualsCard ==
  \A c \in DOMAIN state.turn.selectedCards :
    /\ state.turn.selectedCards[c].cardA.id # "null"
         => state.turn.selectedCards[c].cardA = Cards[state.turn.selectedCards[c].cardA.id]
    /\ state.turn.selectedCards[c].cardB.id # "null"
         => state.turn.selectedCards[c].cardB = Cards[state.turn.selectedCards[c].cardB.id]


-----------------------------------------------------------------------------
(* Restart *)

\* C37: after restart-mission the state is the initial briefing state
\* (phase briefing, room 1, no characters, no enemies, empty turn record)
\* and stays so until start-mission, also when pacing timers of the mission
\* before fire after the restart.
C37_RestartStaysInitial ==
  [][(/\ restarts > 0
      /\ state = InitialState
      /\ state' # StartMissionHandler(Begin).st)
       => state' = InitialState]_vars


-----------------------------------------------------------------------------
(* Enemy attacks and moves *)

\* The step runs the attack callback of timer k, and the callback attacks
AttackCallbackRuns(k) ==
  /\ timers[k].kind = "enemyAttack"
  /\ CanFire(k)
  /\ IndexOf(state.enemies, timers[k].enemyId) # 0
  /\ IndexOf(state.characters, timers[k].targetId) # 0
  /\ state' = EnemyAttackCallback(Begin, timers[k]).st
  /\ timers' = Without(k) \o EnemyAttackCallback(Begin, timers[k]).tm

\* C38: every enemy attack, plain or the attack step of moveAndAttack, is
\* made against a living character within the enemy's range of the hex the
\* enemy stands on when it attacks, and every enemy move ends on a hex of
\* the enemy's reachable set.
C38_EnemyAttacksInRange ==
  [][/\ \A k \in 1..Len(timers) :
          AttackCallbackRuns(k)
            => LET enemy == state.enemies[IndexOf(state.enemies, timers[k].enemyId)]
                   target == state.characters[IndexOf(state.characters, timers[k].targetId)]
               IN /\ target.health > 0
                  /\ HexDistance(enemy.position, target.position) <= enemy.range
     /\ \A i \in 1..Len(state.enemies) :
          (~state.enemies[i].stunned /\ EnemyEntryRuns(i))
            => LET enemy == state.enemies[i]
                   decision == DecideAction(enemy, state)
                   j == IndexOf(state'.enemies, enemy.id)
               IN /\ decision.type = "attack"
                       => LET target == state.characters[IndexOf(state.characters,
                                                                 decision.targetId)]
                          IN /\ target.health > 0
                             /\ HexDistance(enemy.position, target.position) <= enemy.range
                             /\ HitBy(enemy, target.id)
                  /\ decision.type \in {"move", "moveAndAttack"}
                       => /\ decision.position \in
                               Range(GetReachableHexes(enemy.position, enemy.move, state))
                          /\ j # 0
                          /\ state'.enemies[j].position = decision.position]_vars


(***************************************************************************)
(* Push direction                                                          *)
(***************************************************************************)

\* The offset from one hex to another
Offset(from, to) == <<to[1] - from[1], to[2] - from[2]>>

\* C39: when the target of a push stands on a hex adjacent to the pusher,
\* the direction getDirection returns is exactly the offset from the pusher to
\* the target, whichever of the six neighbours of the pusher the target is on
C39_AdjacentPushDirection ==
  \A j \in 1..Len(state.enemies) :
    \A pusherPos \in RoomHexes(Room(state)) :
      HexDistance(pusherPos, state.enemies[j].position) = 1
        => GetDirection(pusherPos, state.enemies[j].position)
             = Offset(pusherPos, state.enemies[j].position)


(***************************************************************************)
(* Events of an attack                                                     *)
(***************************************************************************)

\* The health the store holds for a unit, 0 for a unit no longer held
StoredHealth(st, id) ==
  LET i == IndexOf(st.enemies, id)
      c == IndexOf(st.characters, id)
  IN IF i # 0 THEN st.enemies[i].health
     ELSE IF c # 0 THEN st.characters[c].health
     ELSE 0

\* The attack has brought the unit down: an enemy removed, a character at
\* health 0 with the phase set to defeat
BroughtDown(st, id) ==
  LET c == IndexOf(st.characters, id)
  IN IF c # 0
     THEN st.characters[c].health <= 0 /\ st.phase = "defeat"
     ELSE IndexOf(st.enemies, id) = 0

\* The events of one attack agree with the state it leaves
EventsAgree(r, id) ==
  /\ \E k \in 1..Len(r.events) :
       r.events[k].type = "unit:damaged" /\ r.events[k].id = id
  /\ \A k \in 1..Len(r.events) :
       r.events[k].type = "unit:damaged"
         => r.events[k].newHealth = StoredHealth(r.st, id)
  /\ (\E k \in 1..Len(r.events) :
        r.events[k].type = "unit:defeated" /\ r.events[k].id = id)
       <=> BroughtDown(r.st, id)

\* C40: the events of an attack agree with the store: unit:damaged reports
\* as newHealth the health the store holds for the target after the attack,
\* and unit:defeated is emitted exactly when the attack has brought the
\* target's stored health to 0 (enemy removed, or character dead and the
\* phase defeat)
C40_AttackEventsAgreeWithStore ==
  [][/\ \A i \in 1..Len(state.characters) : \A d \in 1..MaxAmount :
          LET r == ExecuteAttack(Begin, state, state.characters[i].id, d, FALSE)
          IN (state' = r.st /\ lastHit' = r.hits)
               => EventsAgree(r, state.characters[i].id)
     /\ \A i \in 1..Len(state.enemies) : \A d \in 1..MaxAmount :
          \A stun \in BOOLEAN :
          LET r == ExecuteAttack(Begin, state, state.enemies[i].id, d, stun)
          IN (state' = r.st /\ state' # state)
               => EventsAgree(r, state.enemies[i].id)]_vars

=============================================================================
